---- MODULE Spec2Model ----
(***************************************************************************)
(* Model of the vault-embeddings core: the embedding store                 *)
(* (VaultEmbeddingRepository), the single-document synchronisation         *)
(* (EmbedNoteUseCase.execute) and the service-level operations of          *)
(* EmbeddingService (embedNote, embedNoteByPath, embedAllNotes,            *)
(* embedStaleNotes, deleteEmbedding), the store over storage that a file   *)
(* synchronisation changes from outside (record files the host's file      *)
(* index does not list yet, content that does not parse), and the          *)
(* similarity search (SearchSimilarUseCase).                               *)
(*                                                                         *)
(* Abstractions: a note is identified by its noteId (the document source   *)
(* maps a path to its noteId one to one here); a SHA-256 digest is an      *)
(* injective tag of the text; vector dimensions are scaled down and        *)
(* similarities are exact hundredths; a record file holds the serialised   *)
(* record, its timestamps as the fields of the ISO string; the             *)
(* summary fields version, lastUpdated, model and dimensions, which no     *)
(* modelled operation reads, are left out of the summary.                  *)
(***************************************************************************)
EXTENDS Integers, Sequences, FiniteSets, TLC

VARIABLES
  vault,        \* document source: noteId -> current text, or Absent
  settings,     \* active provider configuration [provider, model]
  files,        \* embeddings folder: noteId -> content of the record file, or None
  indexFile,    \* persisted summary (index.json)
  indexCache,   \* VaultEmbeddingRepository.indexCache (None = invalidated)
  now,          \* wall clock read by new Date()
  batch,        \* the running embedAllNotes / embedStaleNotes call
  hostIndex,    \* what the host's file index (getAbstractFileByPath) lists
  plugin,       \* VaultEmbeddingsPlugin: services, auto-embed queue, running work
  res           \* what the last operation returned to its caller

vars == <<vault, settings, files, indexFile, indexCache, now, batch, hostIndex, plugin, res>>

----------------------------------------------------------------------------
(* Bounds *)

MaxTime == 3

\* null for record-valued things, and the text of a note that does not exist
None == [none |-> TRUE]

Absent == "absent"

\* content of a file that JSON.parse rejects
Corrupt == [corrupt |-> TRUE]

\* progress.currentNote = null
NoPath == <<>>

NoteIds == {"n1", "n2"}

\* enumeration order of vault.getMarkdownFiles()
NoteOrder == <<"n1", "n2">>

Texts == {"hello", "world"}

\* paths as sequences of segments: n1 lives at the root, n2 in folder a
PathOf(id) == IF id = "n1" THEN <<"n1.md">> ELSE <<"a", "n2.md">>

TitleOf(id) == id

ExcludeChoices == {{}, {<<"a">>}}

ProviderSettings ==
  { [provider |-> "openai", model |-> "text-embedding-3-small"],
    [provider |-> "openai", model |-> "text-embedding-3-large"],
    [provider |-> "google", model |-> "text-embedding-3-small"] }

\* the length of the vectors a model answers with (provider-config), scaled
\* down (1536 -> 2, 3072 -> 3)
ModelDimensions(cfg) == IF cfg.model = "text-embedding-3-small" THEN 2 ELSE 3

\* DEFAULT_DIMENSIONS = 1536, scaled down as above
DEFAULT_DIMENSIONS == 2

\* getDimensions(): this.dimensions, which is the constructor's default,
\* the plugin building the provider with the key and the model only
getDimensions(cfg) == DEFAULT_DIMENSIONS

----------------------------------------------------------------------------
(* Content hasher *)

generateContentHash(content) == [alg |-> "sha256", hex |-> content]

\* mutant: only the digests are compared, not the algorithm prefixes
isHashEqual_IgnorePrefix(hash1, hash2) ==
  IF hash1 = None \/ hash2 = None THEN FALSE ELSE hash1.hex = hash2.hex

\* mutant: the comparison inverted
isHashEqual_Inverted(hash1, hash2) ==
  IF hash1 = None \/ hash2 = None THEN FALSE ELSE hash1 # hash2

isHashEqual(hash1, hash2) ==
  IF hash1 = None \/ hash2 = None THEN FALSE ELSE hash1 = hash2

\* the hashes isHashEqual can be handed: none, or a digest of a text under
\* either prefix ('sha256:' from crypto.subtle, 'simple:' from the fallback)
HashValues == {None} \cup [alg : {"sha256", "simple"}, hex : Texts]

----------------------------------------------------------------------------
(* Embedding provider *)

\* the vector the provider returns for a text, response.data[0].embedding:
\* one fixed vector per model and text, of the length the model answers with
embed(cfg, text) ==
  LET v == IF text = "hello" THEN <<3, 4, 0>> ELSE <<4, 3, 0>>
  IN [i \in 1..ModelDimensions(cfg) |-> v[i]]

----------------------------------------------------------------------------
(* NoteEmbedding entity *)

createNoteEmbedding(noteId, notePath, title, contentHash, vector, cfg, clock) ==
  [ noteId      |-> noteId,
    notePath    |-> notePath,
    title       |-> title,
    contentHash |-> contentHash,
    vector      |-> vector,
    model       |-> cfg.model,
    provider    |-> cfg.provider,
    dimensions  |-> getDimensions(cfg),
    createdAt   |-> clock,
    updatedAt   |-> clock ]

\* mutant: the milliseconds are dropped
toISOString_Seconds(t) ==
  [day |-> t \div 86400000, hour |-> (t \div 3600000) % 24,
   minute |-> (t \div 60000) % 60, second |-> (t \div 1000) % 60,
   ms |-> 0]

\* Date.prototype.toISOString: the UTC fields of a time in milliseconds
toISOString(t) ==
  [day |-> t \div 86400000, hour |-> (t \div 3600000) % 24,
   minute |-> (t \div 60000) % 60, second |-> (t \div 1000) % 60,
   ms |-> t % 1000]

\* new Date(isoString): the time in milliseconds of the UTC fields
parseDate(iso) ==
  iso.day * 86400000 + iso.hour * 3600000 + iso.minute * 60000
    + iso.second * 1000 + iso.ms

serializeNoteEmbedding(embedding) ==
  [embedding EXCEPT !.createdAt = toISOString(@), !.updatedAt = toISOString(@)]

deserializeNoteEmbedding(data) ==
  [data EXCEPT !.createdAt = parseDate(@), !.updatedAt = parseDate(@)]

----------------------------------------------------------------------------
(* Document source (ObsidianNoteRepository) *)

NoteContent(id) == [noteId |-> id, path |-> PathOf(id), title |-> TitleOf(id),
                    content |-> vault[id]]

noteRepository_findById(id) == IF vault[id] = Absent THEN None ELSE NoteContent(id)

\* mutant: the path is resolved without checking that the file is there
noteRepository_findByPath_NoCheck(path) ==
  NoteContent(CHOOSE id \in NoteIds : PathOf(id) = path)

noteRepository_findByPath(path) ==
  IF \E id \in NoteIds : PathOf(id) = path /\ vault[id] # Absent
  THEN NoteContent(CHOOSE id \in NoteIds : PathOf(id) = path /\ vault[id] # Absent)
  ELSE None

\* normalizedFilePath.startsWith(folder + '/') || normalizedFilePath === folder
IsPrefix(s, t) == Len(s) <= Len(t) /\ SubSeq(t, 1, Len(s)) = s

isExcluded(path, excludedFolders) ==
  \E folder \in excludedFolders : IsPrefix(folder, path)

RECURSIVE SelectNotes(_, _)
SelectNotes(order, excludedFolders) ==
  IF order = <<>> THEN <<>>
  ELSE LET id == Head(order)
           rest == SelectNotes(Tail(order), excludedFolders)
       IN IF vault[id] # Absent /\ ~isExcluded(PathOf(id), excludedFolders)
          THEN <<NoteContent(id)>> \o rest
          ELSE rest

findAllExcluding(excludedFolders) == SelectNotes(NoteOrder, excludedFolders)

----------------------------------------------------------------------------
(* Embedding store (VaultEmbeddingRepository) *)

createEmptyIndex == [totalNotes |-> 0, notes |-> [id \in NoteIds |-> None]]

IndexKeys(index) == {id \in NoteIds : index.notes[id] # None}

\* mutant: a summary file that does not parse is answered with a rebuild
getIndex_RebuildOnCorrupt(cache, file) ==
  IF cache # None THEN cache
  ELSE IF file = None THEN createEmptyIndex
  ELSE IF file = Corrupt
  THEN LET notes == [id \in NoteIds |-> IF files[id] = None \/ files[id] = Corrupt
                                         THEN None
                                         ELSE [path |-> files[id].notePath,
                                               contentHash |-> files[id].contentHash,
                                               updatedAt |-> files[id].updatedAt]]
       IN [totalNotes |-> Cardinality({id \in NoteIds : notes[id] # None}),
           notes |-> notes]
  ELSE file

\* getIndex(): the cached summary, else the summary file, else an empty one
\* (the file is missing, or reading or parsing it throws)
getIndex(cache, file) ==
  IF cache # None THEN cache
  ELSE IF file = None THEN createEmptyIndex
  ELSE IF file = Corrupt THEN createEmptyIndex
  ELSE file

getContentHash(index, noteId) ==
  IF index.notes[noteId] = None THEN None ELSE index.notes[noteId].contentHash

\* exists(): fileExists finds the file in the host's index or on disk
exists(fs, noteId) == fs[noteId] # None

\* mutant: content that does not parse is handed on
findById_NoCatch(fs, noteId) ==
  IF fs[noteId] = None THEN None
  ELSE IF fs[noteId] = Corrupt THEN Corrupt
  ELSE deserializeNoteEmbedding(fs[noteId])

\* findById(): null when the file is missing or its content does not parse
findById(fs, noteId) ==
  IF fs[noteId] = None THEN None
  ELSE IF fs[noteId] = Corrupt THEN None
  ELSE deserializeNoteEmbedding(fs[noteId])

IndexEntry(embedding) ==
  [path |-> embedding.notePath, contentHash |-> embedding.contentHash,
   updatedAt |-> toISOString(embedding.updatedAt)]

\* folder.children of the embeddings folder: the record files the host's
\* file index lists
FolderChildren(fs) == {id \in NoteIds : fs[id] # None /\ id \notin hostIndex.unlisted}

\* updateIndex(): the summary rebuilt from the record files the host lists
\* in the embeddings folder; an empty one when the host does not list the
\* folder; a file that does not parse is passed over
RebuiltIndex(fs) ==
  IF hostIndex.embeddings # "listed" THEN createEmptyIndex
  ELSE
    LET notes == [id \in NoteIds |->
                    IF id \in FolderChildren(fs) /\ fs[id] # Corrupt
                    THEN IndexEntry(deserializeNoteEmbedding(fs[id]))
                    ELSE None]
    IN [totalNotes |-> Cardinality({id \in NoteIds : notes[id] # None}),
        notes |-> notes]

RECURSIVE FindEach(_, _, _)
FindEach(order, index, fs) ==
  IF order = <<>> THEN <<>>
  ELSE LET id == Head(order)
           rest == FindEach(Tail(order), index, fs)
       IN IF id \in IndexKeys(index) /\ findById(fs, id) # None
          THEN <<findById(fs, id)>> \o rest
          ELSE rest

\* findAll(): the records of the identifiers the summary lists, in the
\* order of its keys
findAll(index, fs) == FindEach(NoteOrder, index, fs)

\* findByPath(): the record of the first summary entry with that path
findByPath(index, fs, notePath) ==
  IF \E id \in IndexKeys(index) : index.notes[id].path = notePath
  THEN findById(fs, CHOOSE id \in IndexKeys(index) : index.notes[id].path = notePath)
  ELSE None

\* save(): the record file written, the summary cache invalidated
save(fs, embedding) ==
  [fs EXCEPT ![embedding.noteId] = serializeNoteEmbedding(embedding)]

\* delete(): deleteFile removes the record file when the host's file index
\* lists it
delete(fs, noteId) ==
  IF noteId \in hostIndex.unlisted THEN fs ELSE [fs EXCEPT ![noteId] = None]

\* updateIndexEntry(): the summary patched with the entry of one fresh record
updateIndexEntry(index, embedding) ==
  LET notes == [index.notes EXCEPT ![embedding.noteId] = IndexEntry(embedding)]
  IN [totalNotes |-> Cardinality({id \in NoteIds : notes[id] # None}),
      notes |-> notes]

----------------------------------------------------------------------------
(* EmbedNoteUseCase.execute *)

\* mutant: the model is not compared
SameProviderModel_ProviderOnly(existing, cfg) ==
  existing.provider = cfg.provider

\* the provider/model check of the staleness test
SameProviderModel(existing, cfg) ==
  existing.provider = cfg.provider /\ existing.model = cfg.model

\* mutant: every update is reported as new
Reason_AlwaysNew(existingHash) == "new"

\* reason: existingHash ? 'stale' : 'new'
Reason(existingHash) == IF existingHash # None THEN "stale" ELSE "new"

NotFoundOutcome ==
  [status |-> "notfound", reason |-> "-", wasUpdated |-> FALSE, calls |-> 0,
   files |-> files, indexCache |-> indexCache, now |-> now, embedding |-> None]

\* execute(noteId, note): note is the resolved document or None; embedOk and
\* writeOk say whether the provider call and the record write succeed.
Execute(noteId, note, embedOk, writeOk) ==
  IF note = None THEN NotFoundOutcome
  ELSE
    LET currentHash  == generateContentHash(note.content)
        index        == getIndex(indexCache, indexFile)
        existingHash == getContentHash(index, noteId)
        existing     == findById(files, noteId)
        embedding    == createNoteEmbedding(noteId, note.path, note.title, currentHash,
                                            embed(settings, note.content), settings, now + 1)
    IN IF /\ existingHash # None
          /\ isHashEqual(existingHash, currentHash)
          /\ existing # None
          /\ SameProviderModel(existing, settings)
       THEN [status |-> "ok", reason |-> "skipped", wasUpdated |-> FALSE, calls |-> 0,
             files |-> files, indexCache |-> index, now |-> now, embedding |-> existing]
       ELSE IF ~embedOk
       THEN [status |-> "error", reason |-> "-", wasUpdated |-> FALSE, calls |-> 1,
             files |-> files, indexCache |-> index, now |-> now + 1, embedding |-> None]
       ELSE IF ~writeOk
       THEN [status |-> "error", reason |-> "-", wasUpdated |-> FALSE, calls |-> 1,
             files |-> files, indexCache |-> index, now |-> now + 1, embedding |-> None]
       ELSE [status |-> "ok", reason |-> Reason(existingHash), wasUpdated |-> TRUE,
             calls |-> 1, files |-> save(files, embedding), indexCache |-> None,
             now |-> now + 1, embedding |-> embedding]

----------------------------------------------------------------------------
(* State *)

IdleBatch ==
  [pc |-> "idle", kind |-> "-", notes |-> <<>>, i |-> 1,
   progress |-> [total |-> 0, completed |-> 0, skipped |-> 0, failed |-> 0,
                 currentNote |-> NoPath],
   updated |-> 0, log |-> <<>>, outcomes |-> <<>>,
   result |-> [first |-> 0, skipped |-> 0, failed |-> 0],
   prior |-> FALSE]

\* op, id: the operation and its note; status, reason, wasUpdated: what it
\* returned; calls: provider embed calls it made; repeat: it is a
\* single-document embed that directly follows an updating single-document
\* embed of the same note; preHash, preRec: how the summary's hash and the
\* stored record stood against the note and the provider when it started
NoRes == [op |-> "init", id |-> "-", status |-> "-", reason |-> "-",
          wasUpdated |-> FALSE, calls |-> 0, repeat |-> FALSE,
          preHash |-> "-", preRec |-> "-"]

\* the summary's hash for the note against the hash of its current text
PreHash(noteId) ==
  LET entry == getIndex(indexCache, indexFile).notes[noteId]
  IN IF vault[noteId] = Absent THEN "-"
     ELSE IF entry = None THEN "none"
     ELSE IF entry.contentHash = generateContentHash(vault[noteId]) THEN "same"
     ELSE "diff"

\* the stored record's provider and model against the active ones
PreRec(noteId) ==
  IF vault[noteId] = Absent THEN "-"
  ELSE IF findById(files, noteId) = None THEN "none"
  ELSE IF /\ findById(files, noteId).provider = settings.provider
          /\ findById(files, noteId).model = settings.model
  THEN "same"
  ELSE "diff"

OpRes(op, id) == [NoRes EXCEPT !.op = op, !.id = id]

SingleEmbedOps == {"embedNote", "embedNoteByPath"}

\* settings.autoEmbedDelay, in ticks of the clock of the queue
AutoEmbedDelay == 2

\* the plugin after onload with an API key and auto-embed on: the services
\* built (generation counts the EmbeddingService instances built so far), the
\* debouncer created and idle, nothing pending, nothing running. events,
\* notified and owed are history: the events handled so far, how often a
\* path was notified since a queue pass last took it, and the paths queued
\* that no pass took yet. remaining is the time left on the debouncer's
\* timer while it is armed, quiet the time since the last notification that
\* was queued (counted up to the delay)
PluginLoaded ==
  [apiKey |-> TRUE, autoEmbed |-> TRUE, excludedFolders |-> {},
   storagePath |-> "default",
   embeddingService |-> "built", generation |-> 1, initError |-> "null",
   processAutoEmbedDebounced |-> "idle", abandonedTimer |-> FALSE,
   remaining |-> 0, quiet |-> AutoEmbedDelay,
   pendingAutoEmbedFiles |-> <<>>, autoEmbedProcessing |-> FALSE,
   running |-> <<>>, events |-> 0,
   notified |-> [id \in NoteIds |-> 0], owed |-> {}]

\* the host lists the base folder, the embeddings folder and every record file
HostInitialized == [base |-> "listed", embeddings |-> "listed", unlisted |-> {}]

Init ==
  /\ vault \in [NoteIds -> Texts \cup {Absent}]
  /\ settings = [provider |-> "openai", model |-> "text-embedding-3-small"]
  /\ files = [id \in NoteIds |-> None]
  /\ indexFile = createEmptyIndex
  /\ indexCache = createEmptyIndex
  /\ now = 0
  /\ batch = IdleBatch
  /\ hostIndex = HostInitialized
  /\ plugin = PluginLoaded
  /\ res = NoRes

----------------------------------------------------------------------------
(* EmbeddingService: single-document operations *)

\* the tail shared by embedNote and embedNoteByPath: updateIndexEntry after
\* an update, and the result handed to the caller
EmbedTail(op, noteId, r) ==
  /\ r.calls = 1 => now < MaxTime
  /\ files' = r.files
  /\ now' = r.now
  /\ IF r.status = "ok" /\ r.wasUpdated
     THEN LET patched == updateIndexEntry(getIndex(r.indexCache, indexFile), r.embedding)
          IN indexFile' = patched /\ indexCache' = patched
     ELSE indexFile' = indexFile /\ indexCache' = r.indexCache
  /\ res' = [op |-> op, id |-> noteId, status |-> r.status, reason |-> r.reason,
             wasUpdated |-> r.wasUpdated, calls |-> r.calls,
             repeat |-> /\ res.op \in SingleEmbedOps
                        /\ res.id = noteId
                        /\ res.status = "ok"
                        /\ res.wasUpdated,
             preHash |-> PreHash(noteId), preRec |-> PreRec(noteId)]
  /\ UNCHANGED <<vault, settings, batch, hostIndex, plugin>>

embedNote(noteId) ==
  \E embedOk, writeOk \in BOOLEAN :
    EmbedTail("embedNote", noteId,
              Execute(noteId, noteRepository_findById(noteId), embedOk, writeOk))

embedNoteByPath(noteId) ==
  \E embedOk, writeOk \in BOOLEAN :
    LET note == noteRepository_findByPath(PathOf(noteId))
    IN EmbedTail("embedNoteByPath", noteId,
                 IF note = None THEN NotFoundOutcome
                 ELSE Execute(note.noteId, note, embedOk, writeOk))

\* the vault's delete event: the note is gone and the handler runs
\* deleteEmbedding = delete + updateIndex
deleteNote(noteId) ==
  /\ vault[noteId] # Absent
  /\ vault' = [vault EXCEPT ![noteId] = Absent]
  /\ files' = delete(files, noteId)
  /\ indexFile' = RebuiltIndex(files')
  /\ indexCache' = indexFile'
  /\ res' = OpRes("deleteNote", noteId)
  /\ UNCHANGED <<settings, now, batch, hostIndex, plugin>>

\* the user creates or edits a note
editNote(noteId, text) ==
  /\ vault[noteId] # text
  /\ vault' = [vault EXCEPT ![noteId] = text]
  /\ res' = OpRes("editNote", noteId)
  /\ UNCHANGED <<settings, files, indexFile, indexCache, now, batch, hostIndex, plugin>>

\* saveSettings -> initializeServices: a new provider and a new repository
\* (whose cache starts empty) over the same storage
saveSettings(cfg) ==
  /\ batch.pc # "loop"
  /\ cfg # settings
  /\ settings' = cfg
  /\ indexCache' = None
  /\ res' = OpRes("saveSettings", "-")
  /\ UNCHANGED <<vault, files, indexFile, now, batch, hostIndex, plugin>>

----------------------------------------------------------------------------
(* EmbeddingService: embedAllNotes / embedStaleNotes *)

\* mutant: the callback is not invoked once the item is cleared
onProgress_NoFinal(b) ==
  IF b.progress.currentNote = NoPath THEN b ELSE [b EXCEPT !.log = Append(@, b.progress)]

\* onProgress?.(progress): the callback sees the counters at that moment
onProgress(b) == [b EXCEPT !.log = Append(@, b.progress)]

\* the try block of embedAllNotes succeeded with this reason
AllCompleted(progress, reason) ==
  [progress EXCEPT !.skipped = IF reason = "skipped" THEN @ + 1 ELSE @,
                   !.completed = @ + 1]

\* mutant: the failure is swallowed without being counted
Caught_NoCount(progress) == progress

\* the catch block of both loops
Caught(progress) == [progress EXCEPT !.failed = @ + 1]

\* mutant: the skipped notes are not subtracted
AllResult_NoSubtract(progress) ==
  [first |-> progress.completed,
   skipped |-> progress.skipped, failed |-> progress.failed]

\* the counts embedAllNotes returns
AllResult(progress) ==
  [first |-> progress.completed - progress.skipped,
   skipped |-> progress.skipped, failed |-> progress.failed]

\* the counts embedStaleNotes returns
StaleResult(progress, updated) ==
  [first |-> updated, skipped |-> progress.skipped, failed |-> progress.failed]

\* prior is history: the batch before this one was an embedAllNotes that
\* returned failed = 0
batchStart(kind, excludeFolders) ==
  /\ batch.pc # "loop"
  /\ LET notes == findAllExcluding(excludeFolders)
     IN batch' = [IdleBatch EXCEPT !.pc = "loop", !.kind = kind, !.notes = notes,
                                   !.progress.total = Len(notes),
                                   !.prior = /\ batch.pc = "done"
                                             /\ batch.kind = "embedAllNotes"
                                             /\ batch.result.failed = 0]
  /\ res' = OpRes(kind, "-")
  /\ UNCHANGED <<vault, settings, files, indexFile, indexCache, now, hostIndex, plugin>>

\* one iteration of the loop of embedAllNotes
embedAllStep ==
  /\ batch.pc = "loop" /\ batch.kind = "embedAllNotes"
  /\ batch.i <= Len(batch.notes)
  /\ \E embedOk, writeOk \in BOOLEAN :
       LET note == batch.notes[batch.i]
           b1   == onProgress([batch EXCEPT !.progress.currentNote = note.path])
           r    == Execute(note.noteId, noteRepository_findById(note.noteId),
                           embedOk, writeOk)
       IN /\ r.calls = 1 => now < MaxTime
          /\ files' = r.files
          /\ indexCache' = r.indexCache
          /\ now' = r.now
          /\ batch' = [b1 EXCEPT
                 !.progress = IF r.status = "ok" THEN AllCompleted(@, r.reason)
                              ELSE Caught(@),
                 !.outcomes = Append(@, IF r.status = "ok" THEN r.reason ELSE "failed"),
                 !.i = @ + 1]
          /\ res' = [OpRes("embedAllStep", note.noteId) EXCEPT
                       !.status = r.status, !.reason = r.reason,
                       !.wasUpdated = r.wasUpdated, !.calls = r.calls]
  /\ UNCHANGED <<vault, settings, indexFile, hostIndex, plugin>>

\* mutant: a document is left alone only if, as in execute, its record also
\* carries the active provider and model
staleUnchanged_LikeExecute(noteId, currentHash) ==
  LET existingHash == getContentHash(getIndex(indexCache, indexFile), noteId)
      existing     == findById(files, noteId)
  IN IF existingHash = None \/ existing = None THEN FALSE
     ELSE isHashEqual(existingHash, currentHash) /\ SameProviderModel(existing, settings)

\* if (existingHash && isHashEqual(existingHash, currentHash))
staleUnchanged(noteId, currentHash) ==
  LET existingHash == getContentHash(getIndex(indexCache, indexFile), noteId)
  IN IF existingHash = None THEN FALSE
     ELSE isHashEqual(existingHash, currentHash)

\* one iteration of the loop of embedStaleNotes: the hash of the enumerated
\* text is compared with the summary's before execute is called
embedStaleStep ==
  /\ batch.pc = "loop" /\ batch.kind = "embedStaleNotes"
  /\ batch.i <= Len(batch.notes)
  /\ \E embedOk, writeOk \in BOOLEAN :
       LET note == batch.notes[batch.i]
           b1   == onProgress([batch EXCEPT !.progress.currentNote = note.path])
           currentHash  == generateContentHash(note.content)
           index        == getIndex(indexCache, indexFile)
           r    == Execute(note.noteId, noteRepository_findById(note.noteId),
                           embedOk, writeOk)
       IN IF staleUnchanged(note.noteId, currentHash)
          THEN /\ batch' = [b1 EXCEPT !.progress.skipped = @ + 1,
                                      !.progress.completed = @ + 1,
                                      !.outcomes = Append(@, "skipped"),
                                      !.i = @ + 1]
               /\ indexCache' = index
               /\ res' = [OpRes("embedStaleStep", note.noteId) EXCEPT
                            !.status = "ok", !.reason = "skipped"]
               /\ UNCHANGED <<files, now>>
          ELSE /\ r.calls = 1 => now < MaxTime
               /\ files' = r.files
               /\ indexCache' = r.indexCache
               /\ now' = r.now
               /\ batch' = [b1 EXCEPT
                      !.progress = IF r.status = "ok"
                                   THEN [@ EXCEPT !.completed = @ + 1]
                                   ELSE Caught(@),
                      !.updated = IF r.status = "ok" THEN @ + 1 ELSE @,
                      !.outcomes = Append(@, IF r.status = "ok" THEN "updated" ELSE "failed"),
                      !.i = @ + 1]
               /\ res' = [OpRes("embedStaleStep", note.noteId) EXCEPT
                            !.status = r.status, !.reason = r.reason,
                            !.wasUpdated = r.wasUpdated, !.calls = r.calls]
  /\ UNCHANGED <<vault, settings, indexFile, hostIndex, plugin>>

\* after the loop: the final callback, updateIndex, the returned counts
batchFinish ==
  /\ batch.pc = "loop"
  /\ batch.i > Len(batch.notes)
  /\ LET b1 == onProgress([batch EXCEPT !.progress.currentNote = NoPath])
     IN batch' = [b1 EXCEPT !.pc = "done",
                            !.result = IF batch.kind = "embedAllNotes"
                                       THEN AllResult(b1.progress)
                                       ELSE StaleResult(b1.progress, b1.updated)]
  /\ indexFile' = RebuiltIndex(files)
  /\ indexCache' = indexFile'
  /\ res' = OpRes("batchFinish", "-")
  /\ UNCHANGED <<vault, settings, files, now, hostIndex, plugin>>

----------------------------------------------------------------------------
(* Direct calls on the store *)

\* the storage folders are there: the plugin calls the store after
\* initialize()
StorageExists == hostIndex.base # "none" /\ hostIndex.embeddings # "none"

storeSave(noteId, text) ==
  /\ files' = save(files, createNoteEmbedding(noteId, PathOf(noteId), TitleOf(noteId),
                                              generateContentHash(text),
                                              embed(settings, text), settings, now))
  /\ indexCache' = None
  /\ res' = OpRes("save", noteId)
  /\ UNCHANGED <<vault, settings, indexFile, now, batch, hostIndex, plugin>>

storeDelete(noteId) ==
  /\ StorageExists
  /\ files' = delete(files, noteId)
  /\ indexCache' = None
  /\ res' = OpRes("delete", noteId)
  /\ UNCHANGED <<vault, settings, indexFile, now, batch, hostIndex, plugin>>

storeUpdateIndex ==
  /\ StorageExists
  /\ indexFile' = RebuiltIndex(files)
  /\ indexCache' = indexFile'
  /\ res' = OpRes("updateIndex", "-")
  /\ UNCHANGED <<vault, settings, files, now, batch, hostIndex, plugin>>

\* text, createdAt and updatedAt (in ms) of the records handed to save
RecordInputs == {<<"hello", 0, 0>>, <<"world", 1500, 90061001>>}

\* valid records a caller hands to save
VaultRecords ==
  { [createNoteEmbedding(id, PathOf(id), TitleOf(id), generateContentHash(input[1]),
                         embed(settings, input[1]), settings, 0)
       EXCEPT !.createdAt = input[2], !.updatedAt = input[3]] :
    id \in NoteIds, input \in RecordInputs }

\* save(r) of any valid record, which completes or fails in writeFile
saveRecord(r, writeOk) ==
  /\ StorageExists
  /\ files' = IF writeOk THEN save(files, r) ELSE files
  /\ indexCache' = IF writeOk THEN None ELSE indexCache
  /\ res' = [op |-> "saveRecord", id |-> r.noteId,
             status |-> IF writeOk THEN "ok" ELSE "error", record |-> r]
  /\ UNCHANGED <<vault, settings, indexFile, now, batch, hostIndex, plugin>>

\* mutant: an 'already exists' answer of vault.create is thrown on
writeFile_NoRetry(fs, host, noteId, content, createOk, caughtUp) ==
  IF fs[noteId] # None /\ noteId \notin host.unlisted
  THEN [ok |-> TRUE, via |-> "modify", hostIndex |-> host,
        files |-> [fs EXCEPT ![noteId] = content]]
  ELSE IF fs[noteId] = None /\ createOk
  THEN [ok |-> TRUE, via |-> "create", hostIndex |-> host,
        files |-> [fs EXCEPT ![noteId] = content]]
  ELSE [ok |-> FALSE, via |-> "throw", hostIndex |-> host, files |-> fs]

\* writeFile(path, content) for the record file of noteId. A file the host
\* lists is modified. Otherwise vault.create is tried: it answers 'already
\* exists' when the file is on disk (the host does not list it yet), and
\* createOk says whether it succeeds when the file is not there. After
\* 'already exists' and the delay the host may have caught up (caughtUp):
\* then the file is modified, otherwise adapter.write writes it, which the
\* host's index does not notice. vault.modify and adapter.write of a file
\* that is there complete.
writeFile(fs, host, noteId, content, createOk, caughtUp) ==
  IF fs[noteId] # None /\ noteId \notin host.unlisted
  THEN [ok |-> TRUE, via |-> "modify", hostIndex |-> host,
        files |-> [fs EXCEPT ![noteId] = content]]
  ELSE IF fs[noteId] # None
  THEN [ok |-> TRUE,
        via |-> IF caughtUp THEN "retry modify" ELSE "adapter.write",
        hostIndex |-> IF caughtUp THEN [host EXCEPT !.unlisted = @ \ {noteId}]
                      ELSE host,
        files |-> [fs EXCEPT ![noteId] = content]]
  ELSE IF createOk
  THEN [ok |-> TRUE, via |-> "create", hostIndex |-> host,
        files |-> [fs EXCEPT ![noteId] = content]]
  ELSE [ok |-> FALSE, via |-> "throw", hostIndex |-> host, files |-> fs]

\* save(r) with its write spelled out: writeFile, then the summary cache is
\* invalidated; an error of writeFile leaves save before that
storeWrite(r, createOk, caughtUp) ==
  /\ StorageExists
  /\ LET w == writeFile(files, hostIndex, r.noteId, serializeNoteEmbedding(r),
                        createOk, caughtUp)
     IN /\ files' = w.files
        /\ hostIndex' = w.hostIndex
        /\ indexCache' = IF w.ok THEN None ELSE indexCache
        /\ res' = [op |-> "writeFile", id |-> r.noteId,
                   status |-> IF w.ok THEN "ok" ELSE "error",
                   via |-> w.via, record |-> r]
  /\ UNCHANGED <<vault, settings, indexFile, now, batch, plugin>>

\* getContentHash(noteId): getIndex() caches what it returns
storeGetContentHash(noteId) ==
  /\ StorageExists
  /\ indexCache' = getIndex(indexCache, indexFile)
  /\ res' = [op |-> "getContentHash", id |-> noteId, status |-> "ok",
             loaded |-> indexCache = None,
             hash |-> getContentHash(indexCache', noteId)]
  /\ UNCHANGED <<vault, settings, files, indexFile, now, batch, hostIndex, plugin>>

\* count()
storeCount ==
  /\ StorageExists
  /\ indexCache' = getIndex(indexCache, indexFile)
  /\ res' = [op |-> "count", id |-> "-", status |-> "ok",
             loaded |-> indexCache = None,
             count |-> indexCache'.totalNotes]
  /\ UNCHANGED <<vault, settings, files, indexFile, now, batch, hostIndex, plugin>>

\* findAll()
storeFindAll ==
  /\ StorageExists
  /\ indexCache' = getIndex(indexCache, indexFile)
  /\ res' = [op |-> "findAll", id |-> "-", status |-> "ok",
             loaded |-> indexCache = None,
             all |-> findAll(indexCache', files)]
  /\ UNCHANGED <<vault, settings, files, indexFile, now, batch, hostIndex, plugin>>

\* findByPath(PathOf(noteId))
storeFindByPath(noteId) ==
  /\ StorageExists
  /\ indexCache' = getIndex(indexCache, indexFile)
  /\ res' = [op |-> "findByPath", id |-> noteId, status |-> "ok",
             loaded |-> indexCache = None,
             found |-> findByPath(indexCache', files, PathOf(noteId))]
  /\ UNCHANGED <<vault, settings, files, indexFile, now, batch, hostIndex, plugin>>

\* clear(): every file the host lists in the embeddings folder is deleted
\* when the host lists the folder; the summary is replaced by an empty one
clear(fs) ==
  IF hostIndex.embeddings # "listed" THEN fs
  ELSE [id \in NoteIds |-> IF id \in FolderChildren(fs) THEN None ELSE fs[id]]

storeClear ==
  /\ StorageExists
  /\ files' = clear(files)
  /\ indexFile' = createEmptyIndex
  /\ indexCache' = createEmptyIndex
  /\ res' = [op |-> "clear", id |-> "-", status |-> "ok"]
  /\ UNCHANGED <<vault, settings, now, batch, hostIndex, plugin>>

\* mutant: an 'already exists' answer of createFolder is thrown on
ensureFolder_Rethrow(folder, createOk) ==
  IF folder = "listed" THEN [ok |-> TRUE, folder |-> "listed"]
  ELSE IF folder = "unlisted" THEN [ok |-> FALSE, folder |-> "unlisted"]
  ELSE IF createOk THEN [ok |-> TRUE, folder |-> "listed"]
  ELSE [ok |-> FALSE, folder |-> "none"]

\* ensureFolder(path): a folder the host lists is left alone; for a folder
\* that is on disk but not listed createFolder answers 'already exists',
\* which counts as success; a missing folder is created, or createFolder
\* fails and the folder is still missing at the recheck
ensureFolder(folder, createOk) ==
  IF folder = "listed" THEN [ok |-> TRUE, folder |-> "listed"]
  ELSE IF folder = "unlisted" THEN [ok |-> TRUE, folder |-> "unlisted"]
  ELSE IF createOk THEN [ok |-> TRUE, folder |-> "listed"]
  ELSE [ok |-> FALSE, folder |-> "none"]

\* initialize(): both folders ensured, then an empty summary written when
\* the summary file is missing
storeInitialize ==
  \E createBase, createEmbeddings \in BOOLEAN :
    LET b    == ensureFolder(hostIndex.base, createBase)
        e    == IF b.ok THEN ensureFolder(hostIndex.embeddings, createEmbeddings)
                ELSE [ok |-> FALSE, folder |-> hostIndex.embeddings]
        done == b.ok /\ e.ok
    IN /\ hostIndex' = [hostIndex EXCEPT !.base = b.folder, !.embeddings = e.folder]
       /\ IF done /\ indexFile = None
          THEN indexFile' = createEmptyIndex /\ indexCache' = createEmptyIndex
          ELSE indexFile' = indexFile /\ indexCache' = indexCache
       /\ res' = [op |-> "initialize", id |-> "-",
                  status |-> IF done THEN "ok" ELSE "error",
                  existed |-> /\ hostIndex.base # "none"
                              /\ hostIndex.embeddings # "none"
                              /\ indexFile # None]
       /\ UNCHANGED <<vault, settings, files, now, batch, plugin>>

----------------------------------------------------------------------------
(* Similarity search (SearchSimilarUseCase) *)

\* similarities and thresholds are counted in hundredths: 30 is 0.3
DefaultThreshold == 30

DefaultLimit == 10

\* an option the caller leaves out is <<>>, one the caller gives is <<value>>
LimitOf(options) == IF options.limit = <<>> THEN DefaultLimit ELSE options.limit[1]

ThresholdOf(options) ==
  IF options.threshold = <<>> THEN DefaultThreshold ELSE options.threshold[1]

RECURSIVE DotProduct(_, _)
DotProduct(a, b) ==
  IF a = <<>> THEN 0 ELSE Head(a) * Head(b) + DotProduct(Tail(a), Tail(b))

\* Math.sqrt, exact on the squares of the model's vectors
Sqrt(n) == CHOOSE k \in 0..n : k * k = n

\* cosineSimilarity(a, b) for vectors of one length, in hundredths; 0 when
\* a norm is 0
cosineSimilarity(a, b) ==
  LET denominator == Sqrt(DotProduct(a, a)) * Sqrt(DotProduct(b, b))
  IN IF denominator = 0 THEN 0 ELSE (100 * DotProduct(a, b)) \div denominator

\* the two exclusion tests of the loop: the id is excluded, or the path
\* starts with an excluded folder followed by '/'
searchExcluded(embedding, excludeNoteIds, excludeFolders) ==
  \/ embedding.noteId \in excludeNoteIds
  \/ \E folder \in excludeFolders :
       IsPrefix(folder, embedding.notePath) /\ Len(folder) < Len(embedding.notePath)

\* mutant: the lengths are compared before the exclusion tests
dimensionsMismatch_BeforeFilter(queryVector, allEmbeddings, excludeNoteIds, excludeFolders) ==
  \E k \in 1..Len(allEmbeddings) :
    Len(allEmbeddings[k].vector) # Len(queryVector)

\* cosineSimilarity throws 'Vector dimensions must match' in the loop
dimensionsMismatch(queryVector, allEmbeddings, excludeNoteIds, excludeFolders) ==
  \E k \in 1..Len(allEmbeddings) :
    /\ ~searchExcluded(allEmbeddings[k], excludeNoteIds, excludeFolders)
    /\ Len(allEmbeddings[k].vector) # Len(queryVector)

SearchResult(embedding, similarity) ==
  [noteId |-> embedding.noteId, notePath |-> embedding.notePath,
   title |-> embedding.title, similarity |-> similarity]

\* mutant: every record that is not excluded is kept
RECURSIVE collectResults_NoThreshold(_, _, _, _, _)
collectResults_NoThreshold(queryVector, allEmbeddings, excludeNoteIds, excludeFolders, threshold) ==
  IF allEmbeddings = <<>> THEN <<>>
  ELSE LET embedding == Head(allEmbeddings)
           rest == collectResults_NoThreshold(queryVector, Tail(allEmbeddings),
                                              excludeNoteIds, excludeFolders, threshold)
       IN IF searchExcluded(embedding, excludeNoteIds, excludeFolders) THEN rest
          ELSE <<SearchResult(embedding, cosineSimilarity(queryVector, embedding.vector))>>
                 \o rest

\* the loop over allEmbeddings: the results pushed, in the order of iteration
RECURSIVE collectResults(_, _, _, _, _)
collectResults(queryVector, allEmbeddings, excludeNoteIds, excludeFolders, threshold) ==
  IF allEmbeddings = <<>> THEN <<>>
  ELSE LET embedding == Head(allEmbeddings)
           rest == collectResults(queryVector, Tail(allEmbeddings),
                                  excludeNoteIds, excludeFolders, threshold)
           similarity == cosineSimilarity(queryVector, embedding.vector)
       IN IF searchExcluded(embedding, excludeNoteIds, excludeFolders) THEN rest
          ELSE IF similarity >= threshold
          THEN <<SearchResult(embedding, similarity)>> \o rest
          ELSE rest

\* x goes in front of the first result that is not more similar than x
RECURSIVE InsertBySimilarity(_, _)
InsertBySimilarity(x, sorted) ==
  IF sorted = <<>> THEN <<x>>
  ELSE IF Head(sorted).similarity <= x.similarity THEN <<x>> \o sorted
  ELSE <<Head(sorted)>> \o InsertBySimilarity(x, Tail(sorted))

\* mutant: the results are left in the order of iteration
sortBySimilarity_Unsorted(results) == results

\* [...results].sort((a, b) => b.similarity - a.similarity): descending and
\* stable
RECURSIVE sortBySimilarity(_)
sortBySimilarity(results) ==
  IF results = <<>> THEN <<>>
  ELSE InsertBySimilarity(Head(results), sortBySimilarity(Tail(results)))

\* results.slice(0, limit)
limitResults(results, limit) ==
  SubSeq(results, 1, IF limit < Len(results) THEN limit ELSE Len(results))

\* what both searches do from the query vector on; findAll reads the
\* summary through getIndex, which caches it
SearchTail(op, noteId, queryVector, options, excludeNoteIds) ==
  LET index == getIndex(indexCache, indexFile)
      allEmbeddings == findAll(index, files)
      mismatch == dimensionsMismatch(queryVector, allEmbeddings, excludeNoteIds,
                                     options.excludeFolders)
      results == collectResults(queryVector, allEmbeddings, excludeNoteIds,
                                options.excludeFolders, ThresholdOf(options))
  IN /\ indexCache' = index
     /\ res' = [op |-> op, id |-> noteId,
                status |-> IF mismatch THEN "error" ELSE "ok",
                options |-> options, excludeNoteIds |-> excludeNoteIds,
                queryVector |-> queryVector,
                results |-> IF mismatch THEN <<>>
                            ELSE limitResults(sortBySimilarity(results), LimitOf(options))]
     /\ UNCHANGED <<vault, settings, files, indexFile, now, batch, hostIndex, plugin>>

\* searchSimilar(query, options) = SearchSimilarUseCase.execute
searchSimilar(query, options) ==
  SearchTail("searchSimilar", "-", embed(settings, query), options,
             options.excludeNoteIds)

\* mutant: the note's own record is not excluded
findSimilarToNote_NoSelf(noteId, options) ==
  IF findById(files, noteId) = None
  THEN /\ res' = [op |-> "findSimilarToNote", id |-> noteId, status |-> "notfound",
                  options |-> options, excludeNoteIds |-> options.excludeNoteIds,
                  queryVector |-> <<>>, results |-> <<>>]
       /\ UNCHANGED <<vault, settings, files, indexFile, indexCache, now, batch, hostIndex, plugin>>
  ELSE SearchTail("findSimilarToNote", noteId, findById(files, noteId).vector, options,
                  options.excludeNoteIds)

\* findSimilarToNote(noteId, options): the note's own record is excluded
findSimilarToNote(noteId, options) ==
  IF findById(files, noteId) = None
  THEN /\ res' = [op |-> "findSimilarToNote", id |-> noteId, status |-> "notfound",
                  options |-> options, excludeNoteIds |-> options.excludeNoteIds,
                  queryVector |-> <<>>, results |-> <<>>]
       /\ UNCHANGED <<vault, settings, files, indexFile, indexCache, now, batch, hostIndex, plugin>>
  ELSE SearchTail("findSimilarToNote", noteId, findById(files, noteId).vector, options,
                  options.excludeNoteIds \cup {noteId})

SearchOps == {"searchSimilar", "findSimilarToNote"}

\* vectors of stored records: of both dimensions, with a zero vector and
\* one pointing away from the others
SearchVectors == {<<3, 4>>, <<4, 3>>, <<0, 0>>, <<-1, 0>>, <<3, 4, 0>>}

SearchRecords ==
  { [createNoteEmbedding(id, PathOf(id), TitleOf(id), generateContentHash("hello"),
                         v, settings, 0)
       EXCEPT !.dimensions = Len(v),
              !.model = IF Len(v) = 2 THEN "text-embedding-3-small"
                        ELSE "text-embedding-3-large"] :
    id \in NoteIds, v \in SearchVectors }

\* options of the searches: limit and threshold given or left out
\* excluded folders of a search: none, the folder of n2, and an entry that
\* is the whole path of n1
SearchExcludeChoices == ExcludeChoices \cup {{<<"n1.md">>}}

SearchOptions ==
  [limit : {<<>>, <<1>>}, threshold : {<<>>, <<0>>, <<96>>, <<110>>},
   excludeNoteIds : {{}, {"n1"}}, excludeFolders : SearchExcludeChoices]

\* options of findSimilarToNote: no excluded folder
NoteSearchOptions == {options \in SearchOptions : options.excludeFolders = {}}

----------------------------------------------------------------------------
(* The storage changed from outside the store (file sync, another tool) *)

\* content a synchronisation can put into a record file
SyncContents == {serializeNoteEmbedding(r) : r \in VaultRecords} \cup {Corrupt}

\* a record file is written on disk; the host's file index does not list a
\* new file (nor the folders, when they are new) until it catches up
syncRecord(noteId, content) ==
  /\ IF content = Corrupt THEN TRUE ELSE content.noteId = noteId
  /\ files[noteId] # content
  /\ files' = [files EXCEPT ![noteId] = content]
  /\ hostIndex' =
       [base |-> IF hostIndex.base = "none" THEN "unlisted" ELSE hostIndex.base,
        embeddings |-> IF hostIndex.embeddings = "none" THEN "unlisted"
                       ELSE hostIndex.embeddings,
        unlisted |-> IF files[noteId] = None THEN hostIndex.unlisted \cup {noteId}
                     ELSE hostIndex.unlisted]
  /\ res' = [op |-> "syncRecord", id |-> noteId, status |-> "-"]
  /\ UNCHANGED <<vault, settings, indexFile, indexCache, now, batch, plugin>>

\* a record file is removed on disk
syncRemove(noteId) ==
  /\ files[noteId] # None
  /\ files' = [files EXCEPT ![noteId] = None]
  /\ hostIndex' = [hostIndex EXCEPT !.unlisted = @ \ {noteId}]
  /\ res' = [op |-> "syncRemove", id |-> noteId, status |-> "-"]
  /\ UNCHANGED <<vault, settings, indexFile, indexCache, now, batch, plugin>>

\* the summary file is removed, or overwritten with content that does not
\* parse; a cached summary stays as it is
syncIndex(content) ==
  /\ hostIndex.base # "none"
  /\ indexFile # content
  /\ indexFile' = content
  /\ res' = [op |-> "syncIndex", id |-> "-", status |-> "-"]
  /\ UNCHANGED <<vault, settings, files, indexCache, now, batch, hostIndex, plugin>>

\* the host's file index catches up with the disk
hostRefresh ==
  /\ hostIndex.unlisted # {} \/ hostIndex.base = "unlisted"
       \/ hostIndex.embeddings = "unlisted"
  /\ hostIndex' =
       [base |-> IF hostIndex.base = "unlisted" THEN "listed" ELSE hostIndex.base,
        embeddings |-> IF hostIndex.embeddings = "unlisted" THEN "listed"
                       ELSE hostIndex.embeddings,
        unlisted |-> {}]
  /\ res' = [op |-> "hostRefresh", id |-> "-", status |-> "-"]
  /\ UNCHANGED <<vault, settings, files, indexFile, indexCache, now, batch, plugin>>

----------------------------------------------------------------------------
(* VaultEmbeddingsPlugin: the auto-embed queue and the embed command *)

\* events (notifications, commands, settings saves) handled in one behaviour
MaxEvents == 4

\* mutant: a set for a path already pending adds a second entry
MapSet_Push(pending, id) == Append(pending, id)

\* pendingAutoEmbedFiles.set(file.path, file): a Map keeps one entry per key,
\* in the order of first insertion
MapSet(pending, id) ==
  IF \E k \in 1..Len(pending) : pending[k] = id THEN pending
  ELSE Append(pending, id)

\* mutant: calling the debounced function schedules nothing
callDebounced_Never(debounced) == debounced

\* the debounced function is called: debounce(cb, delay, false) schedules
\* the callback unless it is scheduled already
callDebounced(debounced) == IF debounced = "null" THEN "null" ELSE "armed"

\* the timer after such a call: resetTimer is false, so a timer that is
\* running keeps its time and only an idle debouncer starts one
timerAfterCall(debounced, remaining) ==
  IF debounced = "idle" THEN AutoEmbedDelay ELSE remaining

\* mutant: the pass does not look at autoEmbedProcessing
alreadyProcessing_Never(p) == FALSE

\* if (this.autoEmbedProcessing)
alreadyProcessing(p) == p.autoEmbedProcessing

\* the queue's own exclusion test: startsWith(normalizePath(folder) + '/')
queueExcluded(id, excludedFolders) ==
  \E folder \in excludedFolders :
    IsPrefix(folder, PathOf(id)) /\ Len(PathOf(id)) > Len(folder)

\* whether embedNoteByPath(path) reaches provider.embed: the note is found
\* and execute does not answer 'skipped'
reachesProvider(id) ==
  LET note == noteRepository_findByPath(PathOf(id))
  IN IF note = None THEN FALSE
     ELSE Execute(note.noteId, note, TRUE, TRUE).calls = 1

\* a run of awaited embedNoteByPath calls: a queue pass over its snapshot, or
\* the embed command over the active file. k is the entry at hand, invoked
\* the paths embedNoteByPath was called for, skipped the excluded ones,
\* awaiting says that a provider call is in flight, via names the service
\* instance the call was issued through, note the document execute read
\* before that call, notices how often each path had been notified when the
\* snapshot was taken, failed the paths whose call threw
NewRun(kind, snapshot, notices) ==
  [kind |-> kind, files |-> snapshot, k |-> 1, awaiting |-> FALSE,
   invoked |-> <<>>, skipped |-> <<>>, via |-> 0, note |-> None,
   notices |-> notices, failed |-> <<>>]

\* the loop body up to the next provider call: excluded entries are passed
\* over, calls that need no provider call return within the same turn
RECURSIVE runLoop(_, _)
runLoop(a, p) ==
  IF a.k > Len(a.files) THEN a
  ELSE LET id == a.files[a.k]
       IN IF a.kind = "queue" /\ queueExcluded(id, p.excludedFolders)
          THEN runLoop([a EXCEPT !.k = @ + 1, !.skipped = Append(@, id)], p)
          ELSE IF reachesProvider(id)
          THEN [a EXCEPT !.invoked = Append(@, id), !.awaiting = TRUE,
                         !.via = p.generation,
                         !.note = noteRepository_findByPath(PathOf(id))]
          ELSE runLoop([a EXCEPT !.invoked = Append(@, id), !.k = @ + 1], p)

\* mutant: a call that throws ends the loop
afterCall_Propagate(a, ok) ==
  [a EXCEPT !.k = IF ok THEN @ + 1 ELSE Len(a.files) + 1,
            !.awaiting = FALSE,
            !.failed = IF ok THEN @ ELSE Append(@, a.files[a.k])]

\* the awaited embedNoteByPath has returned or thrown: the catch block logs
\* the error and the loop goes on to the next entry
afterCall(a, ok) ==
  [a EXCEPT !.k = @ + 1, !.awaiting = FALSE,
            !.failed = IF ok THEN @ ELSE Append(@, a.files[a.k])]

RemoveAt(s, j) == SubSeq(s, 1, j - 1) \o SubSeq(s, j + 1, Len(s))

\* the finally block of processAutoEmbedQueue
passFinally(p) ==
  [p EXCEPT !.autoEmbedProcessing = FALSE,
            !.processAutoEmbedDebounced =
               IF Len(p.pendingAutoEmbedFiles) > 0 THEN callDebounced(@) ELSE @,
            !.remaining =
               IF Len(p.pendingAutoEmbedFiles) > 0
               THEN timerAfterCall(p.processAutoEmbedDebounced, @) ELSE @]

\* processAutoEmbedQueue() up to its first await: the plugin afterwards and
\* the pass it started (as a one-element sequence), if it started one
processAutoEmbedQueue(p) ==
  IF p.embeddingService = "null" THEN [plugin |-> p, pass |-> <<>>]
  ELSE IF alreadyProcessing(p)
  THEN [plugin |-> IF Len(p.pendingAutoEmbedFiles) > 0
                   THEN [p EXCEPT !.processAutoEmbedDebounced = callDebounced(@),
                                  !.remaining =
                                     timerAfterCall(p.processAutoEmbedDebounced, @)]
                   ELSE p,
        pass |-> <<>>]
  ELSE LET snapshot == p.pendingAutoEmbedFiles
           a     == runLoop(NewRun("queue", snapshot, p.notified), p)
           taken == [p EXCEPT
                       !.autoEmbedProcessing = TRUE,
                       !.pendingAutoEmbedFiles = <<>>,
                       !.owed = @ \ {snapshot[k] : k \in 1..Len(snapshot)},
                       !.notified = [id \in NoteIds |->
                                       IF \E k \in 1..Len(snapshot) : snapshot[k] = id
                                       THEN 0 ELSE @[id]]]
       IN [plugin |-> IF a.awaiting THEN [taken EXCEPT !.running = Append(@, a)]
                      ELSE passFinally(taken),
           pass |-> <<a>>]

\* what the actions of the plugin leave alone
PluginFrame == UNCHANGED <<vault, settings, batch, hostIndex>>

\* execute() reads the summary before it decides: the cache is loaded
SummaryRead(invoked) ==
  IF invoked # <<>> THEN getIndex(indexCache, indexFile) ELSE indexCache

\* the vault's modify and create events for a markdown file
onModify(id) ==
  /\ vault[id] # Absent
  /\ plugin.events < MaxEvents
  /\ plugin' =
       IF plugin.processAutoEmbedDebounced = "null"
       THEN [plugin EXCEPT !.events = @ + 1]
       ELSE [plugin EXCEPT !.pendingAutoEmbedFiles = MapSet(@, id),
                           !.processAutoEmbedDebounced = callDebounced(@),
                           !.remaining =
                              timerAfterCall(plugin.processAutoEmbedDebounced, @),
                           !.quiet = 0,
                           !.events = @ + 1,
                           !.notified[id] = @ + 1,
                           !.owed = @ \cup {id}]
  /\ res' = [op |-> "onModify", id |-> id, pass |-> <<>>]
  /\ PluginFrame
  /\ UNCHANGED <<files, indexFile, indexCache, now>>

\* the vault's delete event for a markdown file: deleteEmbedding, that is
\* delete and updateIndex, when the services are there
onDelete(id) ==
  /\ vault[id] # Absent
  /\ plugin.events < MaxEvents
  /\ vault' = [vault EXCEPT ![id] = Absent]
  /\ plugin' = [plugin EXCEPT !.events = @ + 1]
  /\ IF plugin.embeddingService = "null"
     THEN UNCHANGED <<files, indexFile, indexCache>>
     ELSE /\ files' = delete(files, id)
          /\ indexFile' = RebuiltIndex(files')
          /\ indexCache' = indexFile'
  /\ res' = [op |-> "onDelete", id |-> id, pass |-> <<>>]
  /\ UNCHANGED <<settings, now, batch, hostIndex>>

\* time passes: a running timer comes one tick closer to firing
tick ==
  /\ IF plugin.processAutoEmbedDebounced = "armed" /\ plugin.remaining > 0
     THEN TRUE ELSE plugin.quiet < AutoEmbedDelay
  /\ plugin' = [plugin EXCEPT
                  !.remaining = IF plugin.processAutoEmbedDebounced = "armed" /\ @ > 0
                                THEN @ - 1 ELSE @,
                  !.quiet = IF @ < AutoEmbedDelay THEN @ + 1 ELSE @]
  /\ res' = [op |-> "tick", id |-> "-", pass |-> <<>>]
  /\ PluginFrame
  /\ UNCHANGED <<files, indexFile, indexCache, now>>

\* the timer of the debouncer in use, or of a debouncer that setupAutoEmbed
\* has replaced since it was armed, runs its callback
TimerFires(op, p) ==
  LET q == processAutoEmbedQueue(p)
  IN /\ plugin' = q.plugin
     /\ indexCache' = IF q.pass = <<>> THEN indexCache
                      ELSE SummaryRead(q.pass[1].invoked)
     /\ res' = [op |-> op, id |-> "-",
                pass |-> IF q.pass # <<>> /\ ~q.pass[1].awaiting THEN q.pass ELSE <<>>,
                started |-> q.pass # <<>>]
     /\ PluginFrame
     /\ UNCHANGED <<files, indexFile, now>>

debounceTimerFires ==
  /\ plugin.processAutoEmbedDebounced = "armed"
  /\ plugin.remaining = 0
  /\ TimerFires("debounceTimerFires",
                [plugin EXCEPT !.processAutoEmbedDebounced = "idle"])

abandonedTimerFires ==
  /\ plugin.abandonedTimer
  /\ TimerFires("abandonedTimerFires", [plugin EXCEPT !.abandonedTimer = FALSE])

\* the provider call of run j returns or throws, the rest of execute and of
\* embedNoteByPath follows (save, updateIndexEntry), and the run goes on to
\* its next provider call or to its end
callReturn(j) ==
  /\ j <= Len(plugin.running)
  /\ \E embedOk, writeOk \in BOOLEAN :
       LET a         == plugin.running[j]
           id        == a.files[a.k]
           note      == a.note
           embedding == createNoteEmbedding(id, note.path, note.title,
                                            generateContentHash(note.content),
                                            embed(settings, note.content),
                                            settings, now + 1)
           saved     == embedOk /\ writeOk
           a1        == runLoop(afterCall(a, saved), plugin)
           p1        == [plugin EXCEPT !.running = RemoveAt(@, j)]
       IN /\ files' = IF saved THEN save(files, embedding) ELSE files
          /\ indexFile' = IF saved
                          THEN updateIndexEntry(getIndex(None, indexFile), embedding)
                          ELSE indexFile
          /\ indexCache' = IF saved THEN indexFile'
                           ELSE getIndex(indexCache, indexFile)
          /\ now' = now + 1
          /\ plugin' = IF a1.awaiting THEN [plugin EXCEPT !.running[j] = a1]
                       ELSE IF a.kind = "queue" THEN passFinally(p1)
                       ELSE p1
          /\ res' = [op |-> "callReturn", id |-> id,
                     pass |-> IF ~a1.awaiting /\ a.kind = "queue" THEN <<a1>> ELSE <<>>]
  /\ PluginFrame

\* the command 'Embed current note' with the note as the active file
embedCurrentNote(id) ==
  /\ plugin.events < MaxEvents
  /\ LET a == runLoop(NewRun("embedCurrentNote", <<id>>, plugin.notified), plugin)
         p == [plugin EXCEPT !.events = @ + 1]
     IN IF plugin.embeddingService = "null"
        THEN plugin' = p /\ indexCache' = indexCache
        ELSE /\ plugin' = IF a.awaiting THEN [p EXCEPT !.running = Append(@, a)] ELSE p
             /\ indexCache' = SummaryRead(a.invoked)
  /\ res' = [op |-> "embedCurrentNote", id |-> id, pass |-> <<>>]
  /\ PluginFrame
  /\ UNCHANGED <<files, indexFile, now>>

\* setupAutoEmbed(): the debouncer is dropped (its timer, if armed, stays
\* scheduled), the pending set emptied, a new debouncer created
setupAutoEmbed(p) ==
  [p EXCEPT !.abandonedTimer = @ \/ p.processAutoEmbedDebounced = "armed",
            !.remaining = 0,
            !.pendingAutoEmbedFiles = <<>>,
            !.processAutoEmbedDebounced =
               IF p.autoEmbed /\ p.embeddingService # "null" THEN "idle" ELSE "null"]

\* the storage paths a settings save can leave: the one in use, or one
\* under which the host cannot create a folder
StoragePaths == {"default", "unusable"}

\* saveSettings() -> initializeServices() with the saved credential,
\* auto-embed switch and storage path; createBase and createEmbeddings say
\* whether the host can create a folder of the path in use that is missing.
\* A repository that fails to initialise is dropped with its cache: the
\* service built before, if any, keeps its own
initializeServices(apiKey, autoEmbed, storagePath, createBase, createEmbeddings) ==
  /\ plugin.events < MaxEvents
  /\ LET p    == [plugin EXCEPT !.apiKey = apiKey, !.autoEmbed = autoEmbed,
                                !.storagePath = storagePath, !.events = @ + 1]
         inUse == storagePath = "default"
         b    == ensureFolder(IF inUse THEN hostIndex.base ELSE "none",
                              inUse /\ createBase)
         e    == IF b.ok THEN ensureFolder(hostIndex.embeddings, createEmbeddings)
                 ELSE [ok |-> FALSE, folder |-> hostIndex.embeddings]
     IN IF ~apiKey
        THEN /\ plugin' = [p EXCEPT !.initError = "API key not configured"]
             /\ UNCHANGED <<hostIndex, indexFile, indexCache>>
        ELSE /\ hostIndex' = IF inUse
                             THEN [hostIndex EXCEPT !.base = b.folder,
                                                    !.embeddings = e.folder]
                             ELSE hostIndex
             /\ IF b.ok /\ e.ok
                THEN /\ plugin' = setupAutoEmbed(
                                    [p EXCEPT !.initError = "null",
                                              !.embeddingService = "built",
                                              !.generation = @ + 1])
                     /\ indexFile' = IF indexFile = None THEN createEmptyIndex
                                     ELSE indexFile
                     /\ indexCache' = IF indexFile = None THEN createEmptyIndex
                                      ELSE None
                ELSE /\ plugin' = [p EXCEPT !.initError = "Storage initialization failed"]
                     /\ UNCHANGED <<indexFile, indexCache>>
  /\ res' = [op |-> "initializeServices", id |-> "-", pass |-> <<>>]
  /\ UNCHANGED <<vault, settings, files, now, batch>>

----------------------------------------------------------------------------
(* VaultEmbeddingsPlugin: public API *)

\* isConfigured()
isConfigured(p) == p.apiKey /\ p.embeddingService # "null"

\* throw new Error('Embedding service not initialized')
NotInitialized(op) ==
  [op |-> op, id |-> "-", status |-> "error",
   message |-> "Embedding service not initialized"]

\* EmbeddingService.getStats(): the count of the summary and the provider
\* (model, dimensions and lastUpdated are not represented)
getStats(index) == [totalEmbeddings |-> index.totalNotes, provider |-> settings.provider]

\* the statistics getStats() answers with when there is no service
DefaultStats == [totalEmbeddings |-> 0, provider |-> "openai"]

PublicOps == {"embedAllNotes", "embedStaleNotes", "clearAllEmbeddings",
              "getStats", "searchSimilar", "findSimilarToNote"}

plugin_embedAllNotes ==
  IF plugin.embeddingService = "null"
  THEN /\ res' = NotInitialized("embedAllNotes")
       /\ UNCHANGED <<vault, settings, files, indexFile, indexCache, now, batch,
                      hostIndex, plugin>>
  ELSE batchStart("embedAllNotes", plugin.excludedFolders)

plugin_embedStaleNotes ==
  IF plugin.embeddingService = "null"
  THEN /\ res' = NotInitialized("embedStaleNotes")
       /\ UNCHANGED <<vault, settings, files, indexFile, indexCache, now, batch,
                      hostIndex, plugin>>
  ELSE batchStart("embedStaleNotes", plugin.excludedFolders)

plugin_clearAllEmbeddings ==
  IF plugin.embeddingService = "null"
  THEN /\ res' = NotInitialized("clearAllEmbeddings")
       /\ UNCHANGED <<vault, settings, files, indexFile, indexCache, now, batch,
                      hostIndex, plugin>>
  ELSE /\ batch.pc # "loop"
       /\ storeClear

plugin_getStats ==
  /\ indexCache' = IF plugin.embeddingService = "null" THEN indexCache
                   ELSE getIndex(indexCache, indexFile)
  /\ res' = [op |-> "getStats", id |-> "-", status |-> "ok",
             stats |-> IF plugin.embeddingService = "null" THEN DefaultStats
                       ELSE getStats(indexCache')]
  /\ UNCHANGED <<vault, settings, files, indexFile, now, batch, hostIndex, plugin>>

plugin_searchSimilar(query, options) ==
  IF plugin.embeddingService = "null"
  THEN /\ res' = [op |-> "searchSimilar", id |-> "-", status |-> "ok",
                  results |-> <<>>]
       /\ UNCHANGED <<vault, settings, files, indexFile, indexCache, now, batch,
                      hostIndex, plugin>>
  ELSE searchSimilar(query, options)

plugin_findSimilarToNote(noteId, options) ==
  IF plugin.embeddingService = "null"
  THEN /\ res' = [op |-> "findSimilarToNote", id |-> noteId, status |-> "ok",
                  results |-> <<>>]
       /\ UNCHANGED <<vault, settings, files, indexFile, indexCache, now, batch,
                      hostIndex, plugin>>
  ELSE findSimilarToNote(noteId, options)

----------------------------------------------------------------------------
(* Document identifiers (ObsidianNoteRepository.generateNoteId) *)

\* paths are sequences of character codes; the characters drawn are
\* 'A', 'B', 'a', '/' and '\'
MaxNameLen == 2

PathChars == {65, 66, 97, 47, 92}

DotMd == <<46, 109, 100>>

\* the paths handed to generateNoteId: a name of up to MaxNameLen characters
\* followed by '.md'
NotePaths ==
  {name \o DotMd : name \in UNION {[1..n -> PathChars] : n \in 1..MaxNameLen}}

RECURSIVE CollapseSlashes(_)
CollapseSlashes(str) ==
  IF Len(str) <= 1 THEN str
  ELSE IF str[1] = 47 /\ str[2] = 47 THEN CollapseSlashes(Tail(str))
  ELSE <<str[1]>> \o CollapseSlashes(Tail(str))

TrimSlashes(str) ==
  LET first == IF str # <<>> /\ str[1] = 47 THEN 2 ELSE 1
      last  == IF Len(str) >= first /\ str[Len(str)] = 47 THEN Len(str) - 1
               ELSE Len(str)
  IN SubSeq(str, first, last)

\* the host's normalizePath: backslashes become slashes, runs of slashes one
\* slash, a leading and a trailing slash are dropped
normalizePath(path) ==
  TrimSlashes(CollapseSlashes([i \in 1..Len(path) |->
                                 IF path[i] = 92 THEN 47 ELSE path[i]]))

\* normalizedPath.replace(/\.md$/, '')
withoutExt(path) ==
  IF Len(path) >= 3 /\ SubSeq(path, Len(path) - 2, Len(path)) = DotMd
  THEN SubSeq(path, 1, Len(path) - 3)
  ELSE path

\* a 32-bit integer is kept as its two 16-bit halves. One turn of the loop
\* of simpleHash, hash = (hash << 5) - hash + char; hash = hash & hash, is
\* 31 * hash + char modulo 2^32
hashStep(hash, char) ==
  LET low == 31 * hash.lo + char
  IN [hi |-> (31 * hash.hi + (low \div 65536)) % 65536, lo |-> low % 65536]

RECURSIVE hashLoop(_, _)
hashLoop(hash, str) ==
  IF str = <<>> THEN hash
  ELSE hashLoop(hashStep(hash, Head(str)), Tail(str))

\* Math.abs of the signed 32-bit value: a value with the top bit set is
\* negated
abs32(hash) ==
  IF hash.hi < 32768 THEN hash
  ELSE [hi |-> (65535 - hash.hi + (IF hash.lo = 0 THEN 1 ELSE 0)) % 65536,
        lo |-> (65536 - hash.lo) % 65536]

\* toString(16).padStart(8, '0'): the eight hexadecimal digits
toHex8(hash) ==
  [i \in 1..8 |-> IF i <= 4 THEN (hash.hi \div (16 ^ (4 - i))) % 16
                  ELSE (hash.lo \div (16 ^ (8 - i))) % 16]

\* simpleHash(str)
simpleHash(str) == toHex8(abs32(hashLoop([hi |-> 0, lo |-> 0], str)))

generateNoteId(path) == simpleHash(withoutExt(normalizePath(path)))

\* the identifiers of two documents are generated, once
generateNoteIds(path1, path2) ==
  /\ res.op = "init"
  /\ res' = [op |-> "generateNoteId",
             paths |-> <<normalizePath(path1), normalizePath(path2)>>,
             ids |-> <<generateNoteId(path1), generateNoteId(path2)>>]
  /\ UNCHANGED <<vault, settings, files, indexFile, indexCache, now, batch,
                 hostIndex, plugin>>

\* isHashEqual called on two hashes
compareHashes(hash1, hash2) ==
  /\ res' = [op |-> "isHashEqual", hashes |-> <<hash1, hash2>>,
             equal |-> isHashEqual(hash1, hash2)]
  /\ UNCHANGED <<vault, settings, files, indexFile, indexCache, now, batch,
                 hostIndex, plugin>>

----------------------------------------------------------------------------

\* single-document synchronisation, with edits, deletions, provider changes
\* and direct store calls in between
Next ==
  \/ \E id \in NoteIds : embedNote(id)
  \/ \E id \in NoteIds : embedNoteByPath(id)
  \/ \E id \in NoteIds : deleteNote(id)
  \/ \E id \in NoteIds, text \in Texts : editNote(id, text)
  \/ \E cfg \in ProviderSettings : saveSettings(cfg)
  \/ \E id \in NoteIds : storeDelete(id)
  \/ storeUpdateIndex

Spec == Init /\ [][Next]_vars

\* the batch operations, with edits and deletions between two iterations
NextBatch ==
  \/ \E kind \in {"embedAllNotes", "embedStaleNotes"}, ex \in ExcludeChoices :
       batchStart(kind, ex)
  \/ embedAllStep
  \/ embedStaleStep
  \/ batchFinish
  \/ \E id \in NoteIds : deleteNote(id)
  \/ \E id \in NoteIds, text \in Texts : editNote(id, text)

SpecBatch == Init /\ [][NextBatch]_vars

\* embedStaleNotes, with edits and changes of the provider settings between
\* two batches
NextStale ==
  \/ batchStart("embedStaleNotes", {})
  \/ embedStaleStep
  \/ batchFinish
  \/ \E id \in NoteIds, text \in Texts : editNote(id, text)
  \/ \E cfg \in ProviderSettings : saveSettings(cfg)

SpecStale == Init /\ [][NextStale]_vars

\* the store driven directly through save, delete and updateIndex
NextStore ==
  \/ \E id \in NoteIds, text \in Texts : storeSave(id, text)
  \/ \E id \in NoteIds : storeDelete(id)
  \/ storeUpdateIndex

SpecStore == Init /\ [][NextStore]_vars

\* a new repository over a vault that holds no storage yet
InitVault ==
  /\ vault = [id \in NoteIds |-> Absent]
  /\ settings = [provider |-> "openai", model |-> "text-embedding-3-small"]
  /\ files = [id \in NoteIds |-> None]
  /\ indexFile = None
  /\ indexCache = None
  /\ now = 0
  /\ batch = IdleBatch
  /\ hostIndex = [base |-> "none", embeddings |-> "none", unlisted |-> {}]
  /\ plugin = PluginLoaded
  /\ res = NoRes

\* the store over storage that changes from outside as well
NextVault ==
  \/ storeInitialize
  \/ \E r \in VaultRecords, writeOk \in BOOLEAN : saveRecord(r, writeOk)
  \/ \E id \in NoteIds : storeDelete(id)
  \/ storeUpdateIndex
  \/ storeClear
  \/ \E id \in NoteIds : storeGetContentHash(id)
  \/ storeCount
  \/ storeFindAll
  \/ \E id \in NoteIds : storeFindByPath(id)
  \/ \E id \in NoteIds, content \in SyncContents : syncRecord(id, content)
  \/ \E id \in NoteIds : syncRemove(id)
  \/ \E content \in {None, Corrupt} : syncIndex(content)
  \/ hostRefresh

SpecVault == InitVault /\ [][NextVault]_vars

\* writes of the store over record files that appear and disappear on disk
NextWrite ==
  \/ storeInitialize
  \/ \E r \in VaultRecords, createOk, caughtUp \in BOOLEAN :
       storeWrite(r, createOk, caughtUp)
  \/ \E id \in NoteIds : storeDelete(id)
  \/ \E id \in NoteIds, content \in SyncContents : syncRecord(id, content)
  \/ \E id \in NoteIds : syncRemove(id)
  \/ hostRefresh

SpecWrite == InitVault /\ [][NextWrite]_vars

\* two notes and an initialised store into whose embeddings folder a file
\* synchronisation has written record files that the host's file index
\* does not list yet
InitLag ==
  /\ vault = [id \in NoteIds |-> IF id = "n1" THEN "hello" ELSE "world"]
  /\ settings = [provider |-> "openai", model |-> "text-embedding-3-small"]
  /\ files \in {fs \in [NoteIds -> SyncContents \cup {None}] :
                  \A id \in NoteIds :
                    fs[id] \in {None, Corrupt} \/ fs[id].noteId = id}
  /\ indexFile = createEmptyIndex
  /\ indexCache = createEmptyIndex
  /\ now = 0
  /\ batch = IdleBatch
  /\ hostIndex = [HostInitialized EXCEPT
                    !.unlisted = {id \in NoteIds : files[id] # None}]
  /\ plugin = PluginLoaded
  /\ res = NoRes

\* embedAllNotes over all notes, one batch after the other, while the
\* host's file index may catch up; no document and no setting changes
NextLag ==
  \/ batchStart("embedAllNotes", {})
  \/ embedAllStep
  \/ batchFinish
  \/ hostRefresh

SpecLag == InitLag /\ [][NextLag]_vars

\* an initialised store over an empty vault
InitSearch ==
  /\ vault = [id \in NoteIds |-> Absent]
  /\ settings = [provider |-> "openai", model |-> "text-embedding-3-small"]
  /\ files = [id \in NoteIds |-> None]
  /\ indexFile = createEmptyIndex
  /\ indexCache = createEmptyIndex
  /\ now = 0
  /\ batch = IdleBatch
  /\ hostIndex = HostInitialized
  /\ plugin = PluginLoaded
  /\ res = NoRes

\* searches over records saved with any vector
NextSearch ==
  \/ \E r \in SearchRecords : saveRecord(r, TRUE)
  \/ storeUpdateIndex
  \/ \E query \in Texts, options \in SearchOptions : searchSimilar(query, options)
  \/ \E id \in NoteIds, options \in NoteSearchOptions : findSimilarToNote(id, options)

SpecSearch == InitSearch /\ [][NextSearch]_vars

\* the plugin loaded over an initialised, empty store and two notes
InitQueue ==
  /\ vault = [id \in NoteIds |-> IF id = "n1" THEN "hello" ELSE "world"]
  /\ settings = [provider |-> "openai", model |-> "text-embedding-3-small"]
  /\ files = [id \in NoteIds |-> None]
  /\ indexFile = createEmptyIndex
  /\ indexCache = createEmptyIndex
  /\ now = 0
  /\ batch = IdleBatch
  /\ hostIndex = HostInitialized
  /\ plugin \in {[PluginLoaded EXCEPT !.excludedFolders = ex] : ex \in ExcludeChoices}
  /\ res = NoRes

\* the queue's steps, with notifications, the embed command and settings
\* saves that keep the credential and auto-embed in between
QueueSteps ==
  \/ tick
  \/ debounceTimerFires
  \/ abandonedTimerFires
  \/ \E j \in 1..MaxEvents : callReturn(j)

NextQueue ==
  \/ QueueSteps
  \/ \E id \in NoteIds : onModify(id)
  \/ \E id \in NoteIds : embedCurrentNote(id)
  \/ initializeServices(TRUE, TRUE, "default", TRUE, TRUE)

SpecQueue == InitQueue /\ [][NextQueue]_vars

\* the queue with documents deleted while it works
NextDelete ==
  \/ QueueSteps
  \/ \E id \in NoteIds : onModify(id)
  \/ \E id \in NoteIds : onDelete(id)
  \/ initializeServices(TRUE, TRUE, "default", TRUE, TRUE)

SpecDelete == InitQueue /\ [][NextDelete]_vars

\* the host runs a timer that is due and delivers the answer of a provider
\* call; notifications, commands and settings saves may stop coming
FairSpecQueue ==
  /\ SpecQueue
  /\ WF_vars(tick)
  /\ WF_vars(debounceTimerFires)
  /\ WF_vars(abandonedTimerFires)
  /\ \A j \in 1..MaxEvents : WF_vars(callReturn(j))

\* the plugin constructed, before onload has initialised anything
PluginConstructed ==
  [PluginLoaded EXCEPT !.apiKey = FALSE, !.embeddingService = "null",
                       !.generation = 0, !.processAutoEmbedDebounced = "null"]

InitConfig ==
  /\ vault = [id \in NoteIds |-> IF id = "n1" THEN "hello" ELSE "world"]
  /\ settings = [provider |-> "openai", model |-> "text-embedding-3-small"]
  /\ files = [id \in NoteIds |-> None]
  /\ indexFile = createEmptyIndex
  /\ indexCache = None
  /\ now = 0
  /\ batch = IdleBatch
  /\ hostIndex = HostInitialized
  /\ plugin = PluginConstructed
  /\ res = NoRes

\* the options the public searches are called with
ConfigSearchOptions ==
  {options \in SearchOptions : /\ options.limit = <<>>
                               /\ options.threshold = <<0>>
                               /\ options.excludeNoteIds = {}
                               /\ options.excludeFolders = {}}

\* onload and settings saves, with the public operations in between; the
\* folders of the path in use exist, so that nothing has to be created
NextConfig ==
  \/ \E apiKey, autoEmbed \in BOOLEAN, storagePath \in StoragePaths :
       initializeServices(apiKey, autoEmbed, storagePath, TRUE, TRUE)
  \/ plugin_embedAllNotes
  \/ plugin_embedStaleNotes
  \/ embedAllStep
  \/ embedStaleStep
  \/ batchFinish
  \/ plugin_clearAllEmbeddings
  \/ plugin_getStats
  \/ \E query \in Texts, options \in ConfigSearchOptions :
       plugin_searchSimilar(query, options)
  \/ \E id \in NoteIds, options \in ConfigSearchOptions :
       plugin_findSimilarToNote(id, options)

SpecConfig == InitConfig /\ [][NextConfig]_vars

\* identifiers generated for any two paths
NextIds == \E path1, path2 \in NotePaths : generateNoteIds(path1, path2)

SpecIds == InitSearch /\ [][NextIds]_vars

\* hash comparisons, and single-document embeds over summaries that hold a
\* hash for the note or none
NextHash ==
  \/ \E hash1, hash2 \in HashValues : compareHashes(hash1, hash2)
  \/ \E id \in NoteIds : embedNote(id)
  \/ \E id \in NoteIds : embedNoteByPath(id)
  \/ \E id \in NoteIds : storeDelete(id)
  \/ storeUpdateIndex

SpecHash == Init /\ [][NextHash]_vars

----------------------------------------------------------------------------
(* Properties *)

\* a step that is a single-document embed (embedNote or embedNoteByPath) of
\* the note res'.id
SingleEmbedStep == res'.op \in SingleEmbedOps

CurrentHashOf(noteId) == generateContentHash(vault[noteId])

StoredHashOf(noteId) == getContentHash(getIndex(indexCache, indexFile), noteId)

\* C1: a single-document embed that directly follows a single-document embed
\* of the same note that returned wasUpdated=true (nothing happened in
\* between, so text and provider/model are the same) returns
\* reason='skipped', wasUpdated=false, calls the provider zero times and
\* leaves the record files and the summary file as they were.
C1_SkipAfterEmbed ==
  [][ (SingleEmbedStep /\ res'.repeat)
      => /\ res'.status = "ok"
         /\ res'.reason = "skipped"
         /\ ~res'.wasUpdated
         /\ res'.calls = 0
         /\ files' = files
         /\ indexFile' = indexFile ]_vars

C1_Witness ==
  /\ res.op \in SingleEmbedOps /\ res.repeat
  /\ res.reason = "skipped"
  /\ files[res.id] # None

\* C2: when findById finds no record for a note that can be resolved, a
\* successful single-document embed calls the provider, persists a record
\* and returns wasUpdated=true with reason='new', whatever the summary holds.
C2_NoRecordIsNew ==
  [][ (SingleEmbedStep /\ vault[res'.id] # Absent
        /\ findById(files, res'.id) = None /\ res'.status = "ok")
      => /\ res'.calls = 1
         /\ files'[res'.id] # None
         /\ res'.wasUpdated
         /\ res'.reason = "new" ]_vars

\* C3: when the summary holds a hash for the note and it differs from the
\* hash of the current text, a single-document embed calls the provider
\* exactly once and, when it returns, the record is overwritten with one
\* carrying the current hash and the result is wasUpdated=true, 'stale'.
C3_StaleContent ==
  [][ (SingleEmbedStep /\ vault[res'.id] # Absent
        /\ StoredHashOf(res'.id) # None
        /\ StoredHashOf(res'.id) # CurrentHashOf(res'.id))
      => /\ res'.calls = 1
         /\ res'.status = "ok" =>
              /\ files'[res'.id] # None
              /\ files'[res'.id].contentHash = CurrentHashOf(res'.id)
              /\ findById(files', res'.id).updatedAt = now'
              /\ res'.wasUpdated
              /\ res'.reason = "stale" ]_vars

C3_Witness ==
  /\ res.op \in SingleEmbedOps /\ res.status = "ok"
  /\ res.preHash = "diff"
  /\ res.reason = "stale"

\* C4: when the summary's hash equals the current hash but the stored
\* record's provider or model differs from the active one, a single-document
\* embed does not skip: it calls the provider and, when it returns, the
\* record carries the active provider and model and the result is
\* wasUpdated=true, 'stale'.
C4_StaleProvider ==
  [][ (SingleEmbedStep /\ vault[res'.id] # Absent
        /\ StoredHashOf(res'.id) = CurrentHashOf(res'.id)
        /\ files[res'.id] # None
        /\ (files[res'.id].provider # settings.provider
              \/ files[res'.id].model # settings.model))
      => /\ res'.calls = 1
         /\ res'.reason # "skipped"
         /\ res'.status = "ok" =>
              /\ files'[res'.id].provider = settings.provider
              /\ files'[res'.id].model = settings.model
              /\ res'.wasUpdated
              /\ res'.reason = "stale" ]_vars

C4_Witness ==
  /\ res.op \in SingleEmbedOps /\ res.status = "ok"
  /\ res.preHash = "same" /\ res.preRec = "diff"
  /\ res.reason = "stale"

\* C5: when a note that already has a record is embedded again, the record's
\* createdAt is what it was before and its updatedAt is strictly later.
C5_CreatedAtPreserved ==
  [][ (SingleEmbedStep /\ files[res'.id] # None
        /\ res'.status = "ok" /\ res'.wasUpdated)
      => /\ findById(files', res'.id).createdAt = findById(files, res'.id).createdAt
         /\ findById(files', res'.id).updatedAt > findById(files, res'.id).updatedAt ]_vars

\* C6: a single-document embed, by id or by path, of a note the document
\* source cannot resolve fails with not-found, calls the provider zero times
\* and changes neither a record, nor the summary file, nor the summary cache.
C6_NotFound ==
  [][ (SingleEmbedStep /\ vault[res'.id] = Absent)
      => /\ res'.status = "notfound"
         /\ res'.calls = 0
         /\ files' = files
         /\ indexFile' = indexFile
         /\ indexCache' = indexCache ]_vars

C6_Witness ==
  /\ res.op = "embedNoteByPath" /\ res.status = "notfound"
  /\ vault[res.id] = Absent
  /\ \E id \in NoteIds : files[id] # None

\* number of documents of the running batch whose processing failed
FailedSoFar == Cardinality({k \in 1..Len(batch.outcomes) : batch.outcomes[k] = "failed"})

\* C7: in embedAllNotes and embedStaleNotes a document whose processing
\* fails does not end the batch: the loop goes on to the next document, the
\* batch ends only after every enumerated document was processed, failed is
\* the number of documents whose processing failed and completed the number
\* of the others.
C7_BatchTolerant ==
  /\ batch.progress.failed = FailedSoFar
  /\ batch.progress.completed = Len(batch.outcomes) - FailedSoFar
  /\ batch.pc = "loop" => Len(batch.outcomes) = batch.i - 1
  /\ batch.pc = "done" => Len(batch.outcomes) = Len(batch.notes)

C7_Witness ==
  /\ batch.pc = "done"
  /\ Len(batch.notes) = 2
  /\ batch.outcomes[1] = "failed" /\ batch.outcomes[2] # "failed"
  /\ batch.progress.failed = 1 /\ batch.progress.completed = 1

\* C8: over N enumerated documents the progress callback is invoked N+1
\* times: before the k-th document, naming it, with completed+failed = k-1,
\* and once after the last with currentNote cleared and completed+failed =
\* N; no counter decreases from one invocation to the next.
C8_ProgressCalls ==
  LET N   == Len(batch.notes)
      log == batch.log
  IN /\ batch.pc = "loop" => Len(log) = batch.i - 1
     /\ batch.pc = "done" =>
          /\ Len(log) = N + 1
          /\ log[N + 1].currentNote = NoPath
          /\ log[N + 1].completed + log[N + 1].failed = N
     /\ \A k \in 1..Len(log) :
          /\ log[k].total = N
          /\ k <= N => /\ log[k].currentNote = batch.notes[k].path
                       /\ log[k].completed + log[k].failed = k - 1
          /\ k > 1 => /\ log[k].completed >= log[k - 1].completed
                      /\ log[k].skipped >= log[k - 1].skipped
                      /\ log[k].failed >= log[k - 1].failed

C8_Witness ==
  /\ batch.pc = "done"
  /\ Len(batch.notes) = 2
  /\ Len(batch.log) = 3
  /\ batch.log[3].failed = 1

SkippedOutcomes ==
  Cardinality({k \in 1..Len(batch.outcomes) : batch.outcomes[k] = "skipped"})

\* C9: embedAllNotes returns success = completed - skipped, skipped is the
\* number of documents whose embed returned 'skipped', and success + skipped
\* + failed = total; embedStaleNotes returns updated + skipped + failed =
\* total.
C9_CountsPartition ==
  batch.pc = "done" =>
    /\ batch.result.first + batch.result.skipped + batch.result.failed
         = batch.progress.total
    /\ batch.progress.total = Len(batch.notes)
    /\ batch.result.skipped = SkippedOutcomes
    /\ batch.result.failed = FailedSoFar
    /\ batch.kind = "embedAllNotes" =>
         batch.result.first = batch.progress.completed - batch.progress.skipped

C9_Witness ==
  /\ batch.pc = "done" /\ batch.kind = "embedAllNotes"
  /\ batch.result.skipped = 1 /\ batch.result.first = 1

\* C10: after any sequence of save, delete and updateIndex calls, the total
\* of getIndex() is the number of records findAll() returns.
C10_TotalIsFindAll ==
  LET index == getIndex(indexCache, indexFile)
  IN index.totalNotes = Len(findAll(index, files))

\* C11: when save(r) has completed, getIndex() holds an entry for r.noteId
\* whose contentHash is r.contentHash: a getContentHash(r.noteId) that
\* follows the save returns the saved hash.
C11_SaveReflected ==
  [][ res'.op = "save"
      => getContentHash(getIndex(indexCache', indexFile'), res'.id)
           = findById(files', res'.id).contentHash ]_vars

\* C12: when updateIndex() has completed, the summary is the projection of
\* the persisted records: the entry of every record findById can read, no
\* entry for an identifier without a record file, and a total equal to the
\* number of entries.
C12_RebuildIsProjection ==
  [][ res'.op = "updateIndex"
      => LET index == getIndex(indexCache', indexFile')
         IN /\ \A id \in NoteIds :
                 /\ findById(files', id) # None
                      => index.notes[id] = IndexEntry(findById(files', id))
                 /\ ~exists(files', id) => index.notes[id] = None
            /\ index.totalNotes = Cardinality(IndexKeys(index)) ]_vars

\* C13: when save(r) of a valid record has completed, findById(r.noteId)
\* returns a record equal to r in every field, the timestamps included,
\* whether or not a record file was there before.
C13_SaveRoundTrip ==
  [][ (res'.op = "saveRecord" /\ res'.status = "ok")
      => findById(files', res'.id) = res'.record ]_vars

C13_Witness ==
  /\ res.op = "saveRecord" /\ res.status = "ok"
  /\ res.record.createdAt = 1500 /\ res.record.updatedAt = 90061001
  /\ findById(files, res.id) = res.record
  /\ res.id \in hostIndex.unlisted

\* C14: when delete(id) has completed, exists(id) is false and findById(id)
\* returns null; a delete of an identifier without a record file changes no
\* file.
C14_DeleteRemoves ==
  [][ res'.op = "delete"
      => /\ ~exists(files', res'.id)
         /\ findById(files', res'.id) = None
         /\ ~exists(files, res'.id) => files' = files ]_vars

\* C15: getIndex() does not raise: with no cached summary and a summary file
\* that is missing or does not parse it returns the empty summary, and
\* count, getContentHash, findByPath and findAll, which are built on it,
\* return 0, null, null and no record.
C15_CorruptSummaryIsEmpty ==
  [][ (res'.op \in {"count", "getContentHash", "findByPath", "findAll"}
        /\ indexCache = None /\ (indexFile = None \/ indexFile = Corrupt))
      => /\ res'.status = "ok"
         /\ indexCache' = createEmptyIndex
         /\ res'.op = "count" => res'.count = 0
         /\ res'.op = "getContentHash" => res'.hash = None
         /\ res'.op = "findByPath" => res'.found = None
         /\ res'.op = "findAll" => res'.all = <<>> ]_vars

C15_Witness ==
  /\ res.op = "count" /\ res.loaded /\ res.status = "ok"
  /\ indexFile = Corrupt
  /\ res.count = 0
  /\ \E id \in NoteIds : findById(files, id) # None

\* the record files with every one that does not parse taken away
WithoutCorrupt(fs) == [id \in NoteIds |-> IF fs[id] = Corrupt THEN None ELSE fs[id]]

\* C16: a record file whose content does not parse is treated as absent and
\* raises nothing: findById returns null for it, findAll returns what it
\* returns without that file, and updateIndex writes the summary it writes
\* without that file, which has no entry for it.
C16_CorruptRecordIsAbsent ==
  [][ (\E id \in NoteIds : files[id] = Corrupt)
      => /\ \A id \in NoteIds : files[id] = Corrupt => findById(files, id) = None
         /\ res'.op = "findAll"
              => /\ res'.status = "ok"
                 /\ res'.all = findAll(indexCache', WithoutCorrupt(files))
         /\ res'.op = "updateIndex"
              => /\ indexFile' = RebuiltIndex(WithoutCorrupt(files))
                 /\ \A id \in NoteIds : files[id] = Corrupt => indexFile'.notes[id] = None ]_vars

C16_Witness ==
  /\ res.op = "findAll" /\ res.status = "ok"
  /\ files["n1"] = Corrupt
  /\ "n1" \in IndexKeys(indexCache)
  /\ Len(res.all) = 1 /\ res.all[1].noteId = "n2"

\* C17: when clear() has completed, count() is 0, findAll() returns no
\* record and exists(id) is false for every identifier.
C17_ClearEmpties ==
  [][ res'.op = "clear"
      => LET index == getIndex(indexCache', indexFile')
         IN /\ index.totalNotes = 0
            /\ findAll(index, files') = <<>>
            /\ \A id \in NoteIds : ~exists(files', id) ]_vars

\* C18: initialize() on a store whose folders and summary file are there,
\* also when the host does not list the folders and createFolder answers
\* 'already exists', completes without error and changes neither the summary
\* file nor a record file.
C18_InitializeIdempotent ==
  [][ (res'.op = "initialize" /\ res'.existed)
      => /\ res'.status = "ok"
         /\ indexFile' = indexFile
         /\ files' = files ]_vars

C18_Witness ==
  /\ res.op = "initialize" /\ res.existed /\ res.status = "ok"
  /\ hostIndex.embeddings = "unlisted"
  /\ indexFile # None
  /\ \E id \in NoteIds : files[id] # None

\* the records a search ranks: those findAll returns that pass the exclusion
\* tests of the search res' reports
SearchCandidates ==
  LET all == findAll(getIndex(indexCache, indexFile), files)
  IN {all[k] : k \in {j \in 1..Len(all) :
        ~searchExcluded(all[j], res'.excludeNoteIds, res'.options.excludeFolders)}}

\* C19: every result of searchSimilar and findSimilarToNote has a similarity
\* of at least the threshold (0.3 when the caller gives none); a record that
\* passes the exclusion tests with a similarity below the threshold is not
\* in the results; a threshold above 1 gives no result.
C19_ThresholdFilter ==
  [][ (res'.op \in SearchOps /\ res'.status = "ok")
      => /\ \A k \in 1..Len(res'.results) :
              res'.results[k].similarity >= ThresholdOf(res'.options)
         /\ res'.options.threshold = <<>> =>
              \A k \in 1..Len(res'.results) : res'.results[k].similarity >= 30
         /\ \A e \in SearchCandidates :
              cosineSimilarity(res'.queryVector, e.vector) < ThresholdOf(res'.options)
                => \A k \in 1..Len(res'.results) : res'.results[k].noteId # e.noteId
         /\ ThresholdOf(res'.options) > 100 => res'.results = <<>> ]_vars

C19_Witness ==
  /\ res.op = "searchSimilar" /\ res.status = "ok"
  /\ res.options.threshold = <<>> /\ res.options.limit = <<>>
  /\ res.excludeNoteIds = {} /\ res.options.excludeFolders = {}
  /\ Len(res.results) = 1
  /\ \A id \in NoteIds : id \in IndexKeys(indexCache) /\ findById(files, id) # None

\* the candidates whose similarity reaches the threshold
Qualifying ==
  {e \in SearchCandidates :
     cosineSimilarity(res'.queryVector, e.vector) >= ThresholdOf(res'.options)}

\* C20: the result is the first limit (10 when the caller gives none) of the
\* qualifying records in descending similarity: it is non-increasing in
\* similarity, has min(limit, number of qualifying records) entries, each
\* a qualifying record with its similarity, and no qualifying record left
\* out is strictly more similar than a returned one.
C20_RankedAndLimited ==
  [][ (res'.op \in SearchOps /\ res'.status = "ok")
      => LET results == res'.results
             limit   == IF res'.options.limit = <<>> THEN 10 ELSE res'.options.limit[1]
             returned == {results[k].noteId : k \in 1..Len(results)}
         IN /\ \A k \in 1..Len(results) - 1 :
                 results[k].similarity >= results[k + 1].similarity
            /\ Len(results) = IF limit < Cardinality(Qualifying) THEN limit
                               ELSE Cardinality(Qualifying)
            /\ Cardinality(returned) = Len(results)
            /\ \A k \in 1..Len(results) :
                 \E e \in Qualifying :
                   /\ e.noteId = results[k].noteId
                   /\ results[k].similarity = cosineSimilarity(res'.queryVector, e.vector)
            /\ \A e \in Qualifying :
                 e.noteId \notin returned
                   => \A k \in 1..Len(results) :
                        cosineSimilarity(res'.queryVector, e.vector)
                          <= results[k].similarity ]_vars

C20_Witness ==
  /\ res.op = "searchSimilar" /\ res.status = "ok"
  /\ res.options.limit = <<1>> /\ res.options.threshold = <<0>>
  /\ res.excludeNoteIds = {} /\ res.options.excludeFolders = {}
  /\ Len(res.results) = 1 /\ res.results[1].noteId = "n2"
  /\ \A id \in NoteIds : id \in IndexKeys(indexCache) /\ findById(files, id) # None
  /\ cosineSimilarity(res.queryVector, findById(files, "n1").vector) >= 0

\* C21: no search result has an identifier of the caller's exclusion set,
\* and no search result has a path that starts with an excluded folder
\* followed by a separator or that equals an excluded folder.
C21_ExclusionsHonoured ==
  [][ (res'.op \in SearchOps /\ res'.status = "ok")
      => \A k \in 1..Len(res'.results) :
           /\ res'.results[k].noteId \notin res'.options.excludeNoteIds
           /\ \A folder \in res'.options.excludeFolders :
                ~IsPrefix(folder, res'.results[k].notePath) ]_vars

\* C22: findSimilarToNote(id) fails with not-found exactly when no record is
\* stored for id, and otherwise no result has the identifier id, whatever
\* exclusion list the caller gives.
C22_NeverItself ==
  [][ res'.op = "findSimilarToNote"
      => /\ res'.status = "notfound" <=> findById(files, res'.id) = None
         /\ res'.status = "notfound" => res'.results = <<>>
         /\ \A k \in 1..Len(res'.results) : res'.results[k].noteId # res'.id ]_vars

C22_Witness ==
  /\ res.op = "findSimilarToNote" /\ res.status = "ok" /\ res.id = "n2"
  /\ res.options.excludeNoteIds = {}
  /\ Len(res.results) = 1 /\ res.results[1].noteId = "n1"
  /\ \A id \in NoteIds : id \in IndexKeys(indexCache) /\ findById(files, id) # None

Count(seq, x) == Cardinality({k \in 1..Len(seq) : seq[k] = x})

QueuePasses(p) == {j \in 1..Len(p.running) : p.running[j].kind = "queue"}

\* C24: notifications for one path collapse into one pending entry, and the
\* pass that takes the entry calls embedNoteByPath for the path once: after
\* a notification that is queued the path is pending exactly once, a pass
\* that is running has called for no path twice, and a pass that has ended
\* has called exactly once for every path of its snapshot that is not
\* excluded and never for an excluded one.
C24_OneEntryOneCall ==
  [][ /\ \A id \in NoteIds : Count(plugin'.pendingAutoEmbedFiles, id) <= 1
      /\ (res'.op = "onModify" /\ plugin.processAutoEmbedDebounced # "null")
           => Count(plugin'.pendingAutoEmbedFiles, res'.id) = 1
      /\ \A j \in QueuePasses(plugin'), id \in NoteIds :
           Count(plugin'.running[j].invoked, id) <= 1
      /\ \A k \in 1..Len(res'.pass), id \in NoteIds :
           Count(res'.pass[k].invoked, id) =
             IF /\ Count(res'.pass[k].files, id) >= 1
                /\ ~queueExcluded(id, plugin.excludedFolders)
             THEN 1 ELSE 0 ]_vars

\* a pass has ended that took n1 after two notifications and called
\* embedNoteByPath for it once
C24_Witness ==
  /\ res.op = "callReturn"
  /\ res.pass # <<>>
  /\ res.pass[1].notices["n1"] >= 2
  /\ res.pass[1].files = <<"n1">>
  /\ res.pass[1].invoked = <<"n1">>

\* C25: at most one queue pass runs at a time, and a timer that fires while
\* a pass runs starts no pass, takes no snapshot, leaves the pending set as
\* it is and calls embedNoteByPath for nothing.
C25_SingleFlight ==
  [][ /\ Cardinality(QueuePasses(plugin')) <= 1
      /\ ( /\ res'.op \in {"debounceTimerFires", "abandonedTimerFires"}
           /\ QueuePasses(plugin) # {} )
           => /\ ~res'.started
              /\ plugin'.running = plugin.running
              /\ plugin'.pendingAutoEmbedFiles = plugin.pendingAutoEmbedFiles
              /\ <<files', indexFile', now'>> = <<files, indexFile, now>> ]_vars

\* the timer has fired while a pass was waiting for the provider and a path
\* was pending
C25_Witness ==
  /\ res.op = "debounceTimerFires"
  /\ ~res.started
  /\ QueuePasses(plugin) # {}
  /\ plugin.running[1].awaiting
  /\ plugin.pendingAutoEmbedFiles # <<>>

\* C26: every path queued by a notification is eventually taken by a queue
\* pass, when timers fire and provider calls return.
C26_NothingLost ==
  \A id \in NoteIds : (id \in plugin.owed) ~> (id \notin plugin.owed)

InFlight(p) == {j \in 1..Len(p.running) : p.running[j].awaiting}

\* C27: no two provider calls issued through the same service instance are
\* in flight at the same time.
C27_OneProviderCall ==
  \A i, j \in InFlight(plugin) :
    i # j => plugin.running[i].via # plugin.running[j].via

\* C28: whenever the last initialization failed (initError set) the plugin
\* is not configured: isConfigured() answers false and no embedding service
\* is left for the public operations to use.
C28_FailedInitNotConfigured ==
  plugin.initError # "null"
    => ~isConfigured(plugin) /\ plugin.embeddingService = "null"

\* C29: while there is no embedding service every public operation fails
\* with the not-initialized error.
C29_NotConfiguredError ==
  [][ (plugin.embeddingService = "null" /\ res'.op \in PublicOps)
        => res' = NotInitialized(res'.op) ]_vars

\* C30: embedStaleNotes decides on the hash alone. A document whose hash in
\* the summary equals the hash of the text the batch read for it is counted
\* as skipped, with no provider call and no write, whatever provider and
\* model its record carries; every other document is handed to execute, whose
\* outcome the iteration takes over.
C30_StaleByHashAlone ==
  [][ res'.op = "embedStaleStep" =>
        LET note   == batch.notes[batch.i]
            stored == getContentHash(getIndex(indexCache, indexFile), note.noteId)
        IN IF stored # None /\ stored = generateContentHash(note.content)
           THEN /\ res'.reason = "skipped" /\ res'.calls = 0
                /\ files' = files /\ now' = now
                /\ batch'.progress.skipped = batch.progress.skipped + 1
                /\ batch'.updated = batch.updated
           ELSE \E embedOk, writeOk \in BOOLEAN :
                  LET r == Execute(note.noteId, noteRepository_findById(note.noteId),
                                   embedOk, writeOk)
                  IN /\ res'.status = r.status /\ res'.reason = r.reason
                     /\ res'.calls = r.calls
                     /\ files' = r.files /\ now' = r.now
                     /\ batch'.progress.skipped = batch.progress.skipped ]_vars

\* a document has been skipped whose record carries another model than the
\* active one
C30_Witness ==
  /\ res.op = "embedStaleStep"
  /\ res.reason = "skipped"
  /\ findById(files, res.id) # None
  /\ findById(files, res.id).model # settings.model

\* the records the store holds that can be read
StoredRecords == {findById(files, id) : id \in {x \in NoteIds : findById(files, x) # None}}

\* C31: every record the system has persisted has dimensions equal to the
\* length of its vector, and updatedAt not before createdAt.
C31_RecordInvariant ==
  \A r \in StoredRecords :
    /\ r.dimensions = Len(r.vector)
    /\ r.updatedAt >= r.createdAt

\* C32: once the delete event of a document has been handled and no run is
\* in flight any more, the store holds neither a record nor a summary entry
\* for the document.
C32_DeletedStaysDeleted ==
  \A id \in NoteIds :
    (vault[id] = Absent /\ plugin.running = <<>>)
      => /\ files[id] = None
         /\ indexFile.notes[id] = None
         /\ getIndex(indexCache, indexFile).notes[id] = None

\* C33: the identifier is a function of the normalized path and unique per
\* document: two paths that normalize to the same path get the same
\* identifier, and two paths that do not get different identifiers.
C33_IdsUnique ==
  res.op = "generateNoteId"
    => (res.ids[1] = res.ids[2] <=> res.paths[1] = res.paths[2])

\* C34: isHashEqual answers false when either hash is absent and otherwise
\* true exactly for identical strings, so never for two digests of different
\* prefixes; and a single-document embed of a note for which the summary
\* holds no hash is not skipped: it calls the provider.
C34_HashEquality ==
  [][ /\ res'.op = "isHashEqual" =>
           LET hash1 == res'.hashes[1]
               hash2 == res'.hashes[2]
           IN res'.equal = IF hash1 = None \/ hash2 = None THEN FALSE
                           ELSE hash1.alg = hash2.alg /\ hash1.hex = hash2.hex
      /\ (SingleEmbedStep /\ vault[res'.id] # Absent /\ StoredHashOf(res'.id) = None)
           => res'.reason # "skipped" /\ res'.calls = 1 ]_vars

\* two digests of the same text under different prefixes have been compared
\* and found unequal
C34_Witness ==
  /\ res.op = "isHashEqual"
  /\ res.hashes[1] # None /\ res.hashes[2] # None
  /\ res.hashes[1].hex = res.hashes[2].hex
  /\ res.hashes[1].alg # res.hashes[2].alg
  /\ ~res.equal

\* C35: every notification that is queued restarts the timer of the
\* trigger, and the trigger fires only when the whole delay has passed since
\* the last such notification.
C35_TrailingEdge ==
  [][ /\ (res'.op = "onModify" /\ plugin.processAutoEmbedDebounced # "null")
           => plugin'.remaining = AutoEmbedDelay
      /\ res'.op = "debounceTimerFires" => plugin.quiet >= AutoEmbedDelay ]_vars

\* C36: whenever entries are pending and no queue pass is running, a firing
\* of the trigger is scheduled; in particular a pass that ends with entries
\* that arrived while it ran has re-armed the trigger itself.
C36_PendingIsScheduled ==
  (plugin.pendingAutoEmbedFiles # <<>> /\ ~plugin.autoEmbedProcessing)
     => plugin.processAutoEmbedDebounced = "armed"

\* a pass has just ended, after a failed call, with an entry that arrived
\* while it ran
C36_Witness ==
  /\ res.op = "callReturn"
  /\ ~plugin.autoEmbedProcessing
  /\ plugin.pendingAutoEmbedFiles # <<>>
  /\ plugin.processAutoEmbedDebounced = "armed"

\* C37: a queue pass that ends has dealt with every entry of its snapshot,
\* whether or not a call before it failed: each entry was either passed
\* over, which happens exactly to the entries under an excluded folder, or
\* embedNoteByPath was called for it; and the in-progress flag is false
\* again.
C37_FailureContained ==
  [][ \A n \in 1..Len(res'.pass) :
        LET a == res'.pass[n]
        IN /\ ~plugin'.autoEmbedProcessing
           /\ \A k \in 1..Len(a.files) :
                LET id == a.files[k]
                    under == \E folder \in plugin.excludedFolders :
                               /\ Len(PathOf(id)) > Len(folder)
                               /\ SubSeq(PathOf(id), 1, Len(folder)) = folder
                IN /\ Count(a.invoked, id) = (IF under THEN 0 ELSE 1)
                   /\ Count(a.skipped, id) = (IF under THEN 1 ELSE 0) ]_vars

\* a pass over n1 and n2 has ended: the call for n1 failed and the call for
\* n2 was made all the same
C37_Witness ==
  /\ res.op = "callReturn"
  /\ res.pass # <<>>
  /\ res.pass[1].files = <<"n1", "n2">>
  /\ res.pass[1].failed = <<"n1">>
  /\ res.pass[1].invoked = <<"n1", "n2">>
  /\ ~plugin.autoEmbedProcessing

C39_BatchIdempotent ==
  (batch.kind = "embedAllNotes" /\ batch.prior) =>
    /\ \A k \in 1..Len(batch.outcomes) : batch.outcomes[k] = "skipped"
    /\ res.op = "embedAllStep" => res.calls = 0 /\ ~res.wasUpdated
    /\ batch.pc = "done" =>
         batch.result = [first |-> 0, skipped |-> batch.progress.total,
                         failed |-> 0]

\* C40: in every state of the store, exists(id) is true exactly when
\* findById(id) returns a record, for every identifier.
C40_ExistsIffFound ==
  \A id \in NoteIds : exists(files, id) <=> (findById(files, id) # None)

====
